---------------------------- MODULE Spec2Model ----------------------------
(***************************************************************************)
(* Market synchronisation and arbitrage decision engine                    *)
(* (backend/api.py, backend/fees.py, backend/traders/*.py).                *)
(*                                                                         *)
(* Units.  Money is kept in integers:                                      *)
(*   - a continuous-venue (Polymarket) cost is in mills (1/1000 dollar);   *)
(*   - a discrete-venue (Kalshi) ask is in whole cents, as the venue       *)
(*     quotes it, and becomes mills through CentsToMills (x / 100.0);      *)
(*   - fees and profits are in U = 1e-7 dollar, the finest grain any       *)
(*     product of the fee formulas needs for the contract counts used;     *)
(*   - a margin rounded to 4 decimals (round(x, 4)) is in units of 1e-4    *)
(*     dollar ("tt").                                                      *)
(* Python's None is the value None (-1); every real quantity is >= 0.      *)
(***************************************************************************)
EXTENDS Integers, Sequences, FiniteSets, TLC

None == -1

(***************************************************************************)
(* Program constants.                                                      *)
(***************************************************************************)
HOUR_BOUNDARY_BUFFER_MINUTES == 2
SUSPICIOUS_PRICE_THRESHOLD == 30
MARKET_SYNC_TOLERANCE_MINUTES == 5
MIN_PROFIT_MARGIN == 200
POLYMARKET_GAS_FEE == 200000
KALSHI_FEE_MULTIPLIER == 7
KALSHI_MAX_FEE_PER_CONTRACT == 175000
HISTORY_CAP == 100
WINDOW_BELOW == 4
WINDOW_ABOVE == 5

(***************************************************************************)
(* Small helpers.                                                          *)
(***************************************************************************)
Abs(x) == IF x < 0 THEN -x ELSE x

Max2(a, b) == IF a > b THEN a ELSE b

Min2(a, b) == IF a < b THEN a ELSE b

\* math.ceil(a / b) for a >= 0, b > 0
CeilDiv(a, b) == (a + b - 1) \div b

\* round(a / b) to the nearest integer, ties to the even one (Python round)
RoundDiv(a, b) ==
    LET q == a \div b
        r == a % b
    IN  IF 2 * r < b THEN q
        ELSE IF 2 * r > b THEN q + 1
        ELSE IF q % 2 = 0 THEN q ELSE q + 1

\* x / 100.0 : a quote in cents as a cost in mills
CentsToMills(c) == c * 10

\* the last n elements of s : s[-n:]
LastN(s, n) == IF Len(s) <= n THEN s ELSE SubSeq(s, Len(s) - n + 1, Len(s))

SeqToSet(s) == { s[i] : i \in 1..Len(s) }


(***************************************************************************)
(* Fee model (backend/fees.py).  contracts is the number of contracts,     *)
(* poly_cost the continuous-venue cost in mills, kalshi_cents the          *)
(* discrete-venue ask in cents.  Results are in U (1e-7 dollar).           *)
(***************************************************************************)
\* The contract counts the model computes fees for.
ContractsSet == {1, 100}

\* notional_value * POLYMARKET_TAKER_FEE_RATE = contracts * price * 0.0001
calculate_polymarket_fee(contracts, poly_cost) == contracts * poly_cost

\* fee * 100 in IEEE-754 doubles: 0.07 * contracts * price * (1 - price) * 100
\* evaluates just above the exact product for some inputs where that product
\* is a whole number of cents, and math.ceil then lands one cent higher.
\* These are the (contracts, cents) pairs of 1..100 x 0..100 where it does.
FloatCeilExcess(contracts, kalshi_cents) ==
    IF \/ contracts \in {4, 8, 12, 24, 28, 36, 52, 56, 68, 72, 84} /\ kalshi_cents = 50
       \/ contracts \in {16, 32, 48, 64, 96} /\ kalshi_cents \in {25, 50, 75}
       \/ contracts \in {25, 50, 75} /\ kalshi_cents \in {20, 40, 60, 80}
       \/ contracts = 100 /\ kalshi_cents \in {10, 20, 40, 50, 60, 70, 80}
    THEN 1 ELSE 0

\* math.ceil(fee * 100), in cents
KalshiFeeCeilCents(contracts, kalshi_cents) ==
    CeilDiv(KALSHI_FEE_MULTIPLIER * contracts * kalshi_cents * (100 - kalshi_cents), 10000)
        + FloatCeilExcess(contracts, kalshi_cents)

\* variant: the round-up to the cent without the cap
calculate_kalshi_fee_uncapped(contracts, kalshi_cents) ==
    KalshiFeeCeilCents(contracts, kalshi_cents) * 100000

calculate_kalshi_fee(contracts, kalshi_cents) ==
    LET fee     == KalshiFeeCeilCents(contracts, kalshi_cents) * 100000
        max_fee == contracts * KALSHI_MAX_FEE_PER_CONTRACT
    IN  Min2(fee, max_fee)

\* min(0.07 * price * (1 - price), 0.0175), for one contract, not rounded up
calculate_kalshi_fee_per_contract(kalshi_cents) ==
    Min2(KALSHI_FEE_MULTIPLIER * kalshi_cents * (100 - kalshi_cents) * 10,
         KALSHI_MAX_FEE_PER_CONTRACT)

\* net_margin > 0 in doubles where the exact net profit is zero: 1.00 - 0.97
\* and 1.00 - 0.99 evaluate a hair above 0.03 and 0.01, so that the profit
\* comes out positive.  These are the inputs of 1..100 contracts x 0..1000
\* mills x 0..100 cents with an exact net profit of zero.
FloatBreakEvenPositive(poly_cost, kalshi_cents, contracts) ==
    /\ poly_cost = 0
    /\ << contracts, kalshi_cents >> \in { << 1, 97 >>, << 3, 99 >> }

calculate_arbitrage_with_fees(poly_cost, kalshi_cents, contracts) ==
    LET total_cost       == poly_cost + CentsToMills(kalshi_cents)
        gross_margin     == 1000 - total_cost
        poly_trading_fee == calculate_polymarket_fee(contracts, poly_cost)
        poly_gas_fee     == POLYMARKET_GAS_FEE
        kalshi_fee       == calculate_kalshi_fee(contracts, kalshi_cents)
        total_fees       == poly_trading_fee + poly_gas_fee + kalshi_fee
        gross_profit     == gross_margin * 10000 * contracts
        net_profit       == gross_profit - total_fees
    IN  [ polymarket_trading_fee |-> poly_trading_fee,
          polymarket_gas_fee     |-> poly_gas_fee,
          kalshi_fee             |-> kalshi_fee,
          total_fees             |-> total_fees,
          gross_margin           |-> gross_margin * 10,
          net_margin             |-> RoundDiv(net_profit, 1000 * contracts),
          is_profitable          |-> \/ net_profit > 0
                                     \/ /\ net_profit = 0
                                        /\ FloatBreakEvenPositive(poly_cost, kalshi_cents,
                                                                  contracts) ]

(***************************************************************************)
(* Fetched data.                                                           *)
(*   poly_data   : NoData (None or empty), or a record with price_to_beat  *)
(*                 (None until the hourly candle exists), prices (the cost *)
(*                 of each outcome in mills, None for a key the dict does  *)
(*                 not hold), target_time_utc (None, or the distance in    *)
(*                 seconds between the target time and the start of the    *)
(*                 current hour) and token_ids (TRUE when the settlement   *)
(*                 identifiers of both outcomes are known);                *)
(*   kalshi_data : NoData, or a record with markets, a sequence of ladder  *)
(*                 entries [strike, yes_ask, no_ask (cents), ticker (TRUE  *)
(*                 when the entry carries its native ticker)].             *)
(***************************************************************************)
NoData == [present |-> FALSE]

\* dict.get(key, default)
GetPrice(prices, key, default) == IF prices[key] = None THEN default ELSE prices[key]

\* variant: an ask exactly at 0.02 or 0.98 does not count as extreme
KalshiExtremeStrict(km) ==
    \/ CentsToMills(km.yes_ask) < 20 \/ CentsToMills(km.yes_ask) > 980
    \/ CentsToMills(km.no_ask) < 20 \/ CentsToMills(km.no_ask) > 980

\* yes_ask <= 0.02 or yes_ask >= 0.98 or no_ask <= 0.02 or no_ask >= 0.98
KalshiExtreme(km) ==
    \/ CentsToMills(km.yes_ask) <= 20 \/ CentsToMills(km.yes_ask) >= 980
    \/ CentsToMills(km.no_ask) <= 20 \/ CentsToMills(km.no_ask) >= 980

(***************************************************************************)
(* is_near_hour_boundary: (is_near_boundary, minutes_until_safe).          *)
(***************************************************************************)
is_near_hour_boundary(minutes) ==
    IF minutes < HOUR_BOUNDARY_BUFFER_MINUTES
    THEN [near |-> TRUE, minutes_until_safe |-> HOUR_BOUNDARY_BUFFER_MINUTES - minutes]
    ELSE IF minutes >= 60 - HOUR_BOUNDARY_BUFFER_MINUTES
    THEN [near |-> TRUE, minutes_until_safe |-> (60 - minutes) + HOUR_BOUNDARY_BUFFER_MINUTES]
    ELSE [near |-> FALSE, minutes_until_safe |-> 0]

(***************************************************************************)
(* has_suspicious_prices(poly_prices, kalshi_cost), kalshi_cost in mills.  *)
(***************************************************************************)
has_suspicious_prices(poly_prices, kalshi_cost) ==
    LET up_price   == GetPrice(poly_prices, "Up", 500)
        down_price == GetPrice(poly_prices, "Down", 500)
    IN  \/ up_price <= SUSPICIOUS_PRICE_THRESHOLD
        \/ up_price >= 1000 - SUSPICIOUS_PRICE_THRESHOLD
        \/ down_price <= SUSPICIOUS_PRICE_THRESHOLD
        \/ down_price >= 1000 - SUSPICIOUS_PRICE_THRESHOLD
        \/ kalshi_cost <= SUSPICIOUS_PRICE_THRESHOLD
        \/ kalshi_cost >= 1000 - SUSPICIOUS_PRICE_THRESHOLD

(***************************************************************************)
(* validate_market_sync(poly_data, kalshi_data) at wall-clock minute       *)
(* current_minute: (is_valid, issues).                                     *)
(***************************************************************************)
validate_market_sync(poly_data, kalshi_data, current_minute) ==
    IF ~poly_data.present
    THEN [is_valid |-> FALSE, issues |-> <<"SYNC_ERROR: Polymarket data is missing">>]
    ELSE IF ~kalshi_data.present
    THEN [is_valid |-> FALSE, issues |-> <<"SYNC_ERROR: Kalshi data is missing">>]
    ELSE
    LET poly_target_time == poly_data.target_time_utc
        poly_prices      == poly_data.prices
        kalshi_markets   == kalshi_data.markets
        up_price         == GetPrice(poly_prices, "Up", 0)
        down_price       == GetPrice(poly_prices, "Down", 0)
        price_sum        == up_price + down_price
        near             == current_minute >= 58 \/ current_minute <= 2
        \* Check 3: target time valid and current
        bad_target       == poly_target_time /= None
                            /\ poly_target_time > MARKET_SYNC_TOLERANCE_MINUTES * 60
        no_target        == poly_target_time = None
        \* Check 4: prices not both zero
        both_zero        == up_price = 0 /\ down_price = 0
        sum_warning      == price_sum > 0 /\ (price_sum < 850 \/ price_sum > 1150)
        \* Check 5: ladder available
        no_markets       == Len(kalshi_markets) = 0
        \* Check 6: stricter validation near the hour boundary
        up_extreme       == near /\ (up_price <= 20 \/ up_price >= 980)
        down_extreme     == near /\ (down_price <= 20 \/ down_price >= 980)
        kalshi_extreme   == near /\ \E i \in 1..Len(kalshi_markets) :
                                        KalshiExtreme(kalshi_markets[i])
        \* Check 7: price_to_beat exists
        no_strike        == poly_data.price_to_beat = None
        Issue(cond, msg) == IF cond THEN <<msg>> ELSE <<>>
    IN  [ is_valid |-> ~(bad_target \/ no_target \/ both_zero \/ no_markets
                         \/ up_extreme \/ down_extreme \/ kalshi_extreme \/ no_strike),
          issues   |->
               Issue(bad_target, "SYNC_ERROR: Polymarket target time mismatch")
            \o Issue(no_target, "SYNC_ERROR: Polymarket target time is missing")
            \o Issue(both_zero, "SYNC_ERROR: Polymarket prices are both zero")
            \o Issue(sum_warning, "SYNC_WARNING: Polymarket prices sum")
            \o Issue(no_markets, "SYNC_ERROR: No Kalshi markets available")
            \o Issue(up_extreme, "TRANSITION_BLOCK: Polymarket Up price is extreme")
            \o Issue(down_extreme, "TRANSITION_BLOCK: Polymarket Down price is extreme")
            \o Issue(kalshi_extreme, "TRANSITION_BLOCK: Kalshi strike has extreme prices")
            \o Issue(no_strike, "SYNC_ERROR: Binance price_to_beat is missing") ]

(***************************************************************************)
(* detect_market_transition_anomaly(poly_data, kalshi_data) at wall-clock  *)
(* minute current_minute: (is_anomaly_detected, reason).                   *)
(***************************************************************************)
\* variant: only the yes asks are looked at
ExtremeCountYesOnly(kalshi_markets) ==
    Cardinality({ i \in 1..Len(kalshi_markets) :
                    \/ CentsToMills(kalshi_markets[i].yes_ask) <= 20
                    \/ CentsToMills(kalshi_markets[i].yes_ask) >= 980 })

ExtremeCount(kalshi_markets) ==
    Cardinality({ i \in 1..Len(kalshi_markets) : KalshiExtreme(kalshi_markets[i]) })

detect_market_transition_anomaly(poly_data, kalshi_data, current_minute) ==
    IF ~(current_minute >= 55 \/ current_minute <= 5)
    THEN [has_anomaly |-> FALSE, reason |-> ""]
    ELSE IF ~poly_data.present \/ ~kalshi_data.present
    THEN [has_anomaly |-> TRUE, reason |-> "Missing data during transition window"]
    ELSE
    LET up_price       == GetPrice(poly_data.prices, "Up", 500)
        down_price     == GetPrice(poly_data.prices, "Down", 500)
        kalshi_markets == kalshi_data.markets
    IN  IF up_price <= 10 \/ up_price >= 990 \/ down_price <= 10 \/ down_price >= 990
        THEN [has_anomaly |-> TRUE, reason |-> "Polymarket prices at settlement values"]
        ELSE IF Len(kalshi_markets) > 0
                /\ 2 * ExtremeCount(kalshi_markets) > Len(kalshi_markets)
        THEN [has_anomaly |-> TRUE, reason |-> "Kalshi markets have extreme prices"]
        ELSE IF poly_data.price_to_beat = None /\ current_minute <= 2
        THEN [has_anomaly |-> TRUE, reason |-> "Binance price data not available"]
        ELSE [has_anomaly |-> FALSE, reason |-> ""]

(***************************************************************************)
(* Window selection (get_arbitrage_data, "Find index closest to            *)
(* poly_strike").  Indices are Python's: 0-based.                          *)
(***************************************************************************)
\* kalshi_markets.sort(key=lambda x: x['strike']) : a stable insertion sort
RECURSIVE InsertByStrike(_, _)
InsertByStrike(sorted, m) ==
    IF Len(sorted) = 0 THEN <<m>>
    ELSE IF sorted[Len(sorted)].strike <= m.strike THEN Append(sorted, m)
    ELSE Append(InsertByStrike(SubSeq(sorted, 1, Len(sorted) - 1), m), sorted[Len(sorted)])

RECURSIVE SortByStrike(_)
SortByStrike(markets) ==
    IF Len(markets) = 0 THEN <<>>
    ELSE InsertByStrike(SortByStrike(SubSeq(markets, 1, Len(markets) - 1)),
                        markets[Len(markets)])

\* variant: a later entry as close as the closest so far replaces it
RECURSIVE ScanClosestLast(_, _, _, _, _)
ScanClosestLast(kalshi_markets, poly_strike, i, min_diff, closest_idx) ==
    IF i >= Len(kalshi_markets) THEN closest_idx
    ELSE LET diff == Abs(kalshi_markets[i + 1].strike - poly_strike)
         IN  IF min_diff = None \/ diff <= min_diff
             THEN ScanClosestLast(kalshi_markets, poly_strike, i + 1, diff, i)
             ELSE ScanClosestLast(kalshi_markets, poly_strike, i + 1, min_diff, closest_idx)

\* the body of "for i, m in enumerate(kalshi_markets)": the scan from index i
\* on, min_diff = None standing for float('inf')
RECURSIVE ScanClosest(_, _, _, _, _)
ScanClosest(kalshi_markets, poly_strike, i, min_diff, closest_idx) ==
    IF i >= Len(kalshi_markets) THEN closest_idx
    ELSE LET diff == Abs(kalshi_markets[i + 1].strike - poly_strike)
         IN  IF min_diff = None \/ diff < min_diff
             THEN ScanClosest(kalshi_markets, poly_strike, i + 1, diff, i)
             ELSE ScanClosest(kalshi_markets, poly_strike, i + 1, min_diff, closest_idx)

ClosestIdx(kalshi_markets, poly_strike) ==
    ScanClosest(kalshi_markets, poly_strike, 0, None, 0)

\* kalshi_markets[start_idx:end_idx]
SelectWindow(kalshi_markets, poly_strike) ==
    LET closest_idx == ClosestIdx(kalshi_markets, poly_strike)
        start_idx   == Max2(0, closest_idx - WINDOW_BELOW)
        end_idx     == Min2(Len(kalshi_markets), closest_idx + WINDOW_ABOVE)
    IN  SubSeq(kalshi_markets, start_idx + 1, end_idx)

(***************************************************************************)
(* Checks (get_arbitrage_data, "for km in selected_markets").  A check is  *)
(* the dict the code builds; in_opportunities says that the same dict was  *)
(* also appended to response["opportunities"].  hour_boundary_blocked is   *)
(* "unset" while the key is absent.  fees_total = None while fees == {}.   *)
(***************************************************************************)
BoolStr(b) == IF b THEN "true" ELSE "false"

\* check_data as initialised at the top of the loop body, with the legs set
CheckData(km, poly_token_ids, type, poly_leg, kalshi_leg, poly_cost, kalshi_cents) ==
    [ kalshi_strike            |-> km.strike,
      kalshi_ticker            |-> km.ticker,
      type                     |-> type,
      poly_leg                 |-> poly_leg,
      kalshi_leg               |-> kalshi_leg,
      poly_cost                |-> poly_cost,
      kalshi_cents             |-> kalshi_cents,
      kalshi_cost              |-> CentsToMills(kalshi_cents),
      total_cost               |-> poly_cost + CentsToMills(kalshi_cents),
      is_arbitrage             |-> FALSE,
      gross_margin             |-> 0,
      net_margin               |-> 0,
      fees_total               |-> None,
      is_profitable_after_fees |-> FALSE,
      hour_boundary_blocked    |-> "unset",
      poly_token_ids           |-> poly_token_ids,
      is_best_strike           |-> FALSE,
      in_opportunities         |-> FALSE ]

add_fee_calculations(check, num_contracts) ==
    LET fee_breakdown == calculate_arbitrage_with_fees(check.poly_cost, check.kalshi_cents,
                                                       num_contracts)
    IN  [check EXCEPT !.gross_margin = fee_breakdown.gross_margin,
                      !.net_margin = fee_breakdown.net_margin,
                      !.fees_total = fee_breakdown.total_fees,
                      !.is_profitable_after_fees = fee_breakdown.is_profitable]

\* variant: a profitable check enters the opportunities whatever the boundary test says
MarkArbitrageUnguarded(check, poly_prices, near_boundary) ==
    LET is_suspicious == near_boundary /\ has_suspicious_prices(poly_prices, check.kalshi_cost)
    IN  [check EXCEPT !.is_arbitrage = TRUE,
                      !.hour_boundary_blocked = BoolStr(is_suspicious),
                      !.in_opportunities = check.is_profitable_after_fees]

\* "if total_cost < 1.00: is_arbitrage = True ..." once fees are on the check
MarkArbitrage(check, poly_prices, near_boundary) ==
    LET is_suspicious == near_boundary /\ has_suspicious_prices(poly_prices, check.kalshi_cost)
    IN  [check EXCEPT !.is_arbitrage = TRUE,
                      !.hour_boundary_blocked = BoolStr(is_suspicious),
                      !.in_opportunities = check.is_profitable_after_fees /\ ~is_suspicious]

\* the Equal branch: fees are computed only when total_cost < 1.00
EqualCheck(check, poly_prices, near_boundary, contracts) ==
    IF check.total_cost < 1000
    THEN MarkArbitrage(add_fee_calculations(check, contracts), poly_prices, near_boundary)
    ELSE check

\* the Above/Below branches: fees are computed for the check in any case
SingleCheck(check, poly_prices, near_boundary, contracts) ==
    LET with_fees == add_fee_calculations(check, contracts)
    IN  IF with_fees.total_cost < 1000
        THEN MarkArbitrage(with_fees, poly_prices, near_boundary)
        ELSE with_fees

\* variant: an entry at the reference strike is treated as one below it
ChecksOfNoEqual(km, poly_data, near_boundary, contracts) ==
    LET poly_strike    == poly_data.price_to_beat
        poly_up_cost   == GetPrice(poly_data.prices, "Up", 0)
        poly_down_cost == GetPrice(poly_data.prices, "Down", 0)
        tok            == poly_data.token_ids
    IN  IF poly_strike >= km.strike
        THEN << SingleCheck(CheckData(km, tok, "Poly > Kalshi", "Down", "Yes",
                                      poly_down_cost, km.yes_ask),
                            poly_data.prices, near_boundary, contracts) >>
        ELSE << SingleCheck(CheckData(km, tok, "Poly < Kalshi", "Up", "No",
                                      poly_up_cost, km.no_ask),
                            poly_data.prices, near_boundary, contracts) >>

\* the checks one ladder entry appends to response["checks"], in order
ChecksOf(km, poly_data, near_boundary, contracts) ==
    LET poly_strike    == poly_data.price_to_beat
        poly_up_cost   == GetPrice(poly_data.prices, "Up", 0)
        poly_down_cost == GetPrice(poly_data.prices, "Down", 0)
        tok            == poly_data.token_ids
    IN  IF poly_strike > km.strike
        THEN << SingleCheck(CheckData(km, tok, "Poly > Kalshi", "Down", "Yes",
                                      poly_down_cost, km.yes_ask),
                            poly_data.prices, near_boundary, contracts) >>
        ELSE IF poly_strike < km.strike
        THEN << SingleCheck(CheckData(km, tok, "Poly < Kalshi", "Up", "No",
                                      poly_up_cost, km.no_ask),
                            poly_data.prices, near_boundary, contracts) >>
        ELSE << EqualCheck(CheckData(km, tok, "Equal", "Down", "Yes",
                                     poly_down_cost, km.yes_ask),
                           poly_data.prices, near_boundary, contracts),
                EqualCheck(CheckData(km, tok, "Equal", "Up", "No",
                                     poly_up_cost, km.no_ask),
                           poly_data.prices, near_boundary, contracts) >>

RECURSIVE BuildChecks(_, _, _, _)
BuildChecks(selected_markets, poly_data, near_boundary, contracts) ==
    IF Len(selected_markets) = 0 THEN <<>>
    ELSE ChecksOf(Head(selected_markets), poly_data, near_boundary, contracts)
         \o BuildChecks(Tail(selected_markets), poly_data, near_boundary, contracts)

\* max(seq, key=net_margin): the index (1-based) of the first maximal element
RECURSIVE FirstMaxFrom(_, _, _)
FirstMaxFrom(seq, i, best) ==
    IF i > Len(seq) THEN best
    ELSE IF seq[i].net_margin > seq[best].net_margin
    THEN FirstMaxFrom(seq, i + 1, i)
    ELSE FirstMaxFrom(seq, i + 1, best)

FirstMax(seq) == seq[FirstMaxFrom(seq, 2, 1)]

\* "Find and mark the best opportunity by net margin"
MarkBest(checks) ==
    IF Len(checks) = 0 THEN checks
    ELSE LET best_strike == FirstMax(checks).kalshi_strike
         IN  [ i \in 1..Len(checks) |->
                 [checks[i] EXCEPT !.is_best_strike = (checks[i].kalshi_strike = best_strike)] ]

BestStrike(checks) ==
    IF Len(checks) = 0
    THEN [present |-> FALSE]
    ELSE LET best_check == FirstMax(checks)
         IN  [ present       |-> TRUE,
               kalshi_strike |-> best_check.kalshi_strike,
               net_margin    |-> best_check.net_margin,
               is_profitable |-> best_check.is_profitable_after_fees ]

\* the sub-sequence of s whose elements satisfy Keep
RECURSIVE SelectOpps(_)
SelectOpps(checks) ==
    IF Len(checks) = 0 THEN <<>>
    ELSE IF Head(checks).in_opportunities
    THEN <<Head(checks)>> \o SelectOpps(Tail(checks))
    ELSE SelectOpps(Tail(checks))

(***************************************************************************)
(* One /arbitrage evaluation up to "Find and mark the best opportunity":   *)
(* the response as a function of what was fetched, the wall-clock minute   *)
(* and the contracts parameter.                                            *)
(***************************************************************************)
\* "if issue not in response['errors']: append(issue)"
RECURSIVE AppendNew(_, _)
AppendNew(errors, issues) ==
    IF Len(issues) = 0 THEN errors
    ELSE AppendNew(IF Head(issues) \in SeqToSet(errors) THEN errors
                   ELSE Append(errors, Head(issues)),
                   Tail(issues))

\* variant: blocked only when both the validation and the anomaly test object
TransitionBlockedBoth(is_synced, has_anomaly) == ~is_synced /\ has_anomaly

\* transition_blocked = not is_synced or has_anomaly
TransitionBlocked(is_synced, has_anomaly) == ~is_synced \/ has_anomaly

EmptyResponse ==
    [ sent               |-> FALSE,
      checks             |-> <<>>,
      opportunities      |-> <<>>,
      errors             |-> <<>>,
      contracts          |-> 0,
      near_boundary      |-> FALSE,
      is_synced          |-> FALSE,
      anomaly_detected   |-> FALSE,
      transition_blocked |-> FALSE,
      current_minute     |-> 0,
      has_trading        |-> FALSE,
      best_strike        |-> [present |-> FALSE],
      auto_trade_executed |-> None ]

Evaluate(poly_data, kalshi_data, poly_err, kalshi_err, minute, contracts) ==
    LET boundary == is_near_hour_boundary(minute)
        sync     == validate_market_sync(poly_data, kalshi_data, minute)
        anomaly  == detect_market_transition_anomaly(poly_data, kalshi_data, minute)
        transition_blocked == TransitionBlocked(sync.is_valid, anomaly.has_anomaly)
        errors0  == (IF poly_err /= "" THEN <<poly_err>> ELSE <<>>)
                    \o (IF kalshi_err /= "" THEN <<kalshi_err>> ELSE <<>>)
        base     == [ EmptyResponse EXCEPT
                        !.sent = TRUE,
                        !.contracts = contracts,
                        !.near_boundary = boundary.near,
                        !.is_synced = sync.is_valid,
                        !.anomaly_detected = anomaly.has_anomaly,
                        !.transition_blocked = transition_blocked,
                        !.current_minute = minute,
                        !.errors = AppendNew(errors0, sync.issues) ]
    IN  IF ~poly_data.present \/ ~kalshi_data.present
        THEN base
        ELSE IF transition_blocked
        THEN [base EXCEPT !.has_trading = TRUE]
        ELSE IF poly_data.price_to_beat = None
        THEN [base EXCEPT !.errors = Append(base.errors, "Polymarket Strike is None")]
        ELSE
        LET kalshi_markets   == SortByStrike(kalshi_data.markets)
            selected_markets == SelectWindow(kalshi_markets, poly_data.price_to_beat)
            checks           == MarkBest(BuildChecks(selected_markets, poly_data,
                                                     boundary.near, contracts))
        IN  [base EXCEPT !.has_trading = TRUE,
                         !.checks = checks,
                         !.opportunities = SelectOpps(checks),
                         !.best_strike = BestStrike(checks)]

\* variant: the first profitable opportunity is taken instead of the best
AutoTradeCandidateFirst(response) ==
    IF Len(response.opportunities) = 0 \/ response.transition_blocked THEN <<>>
    ELSE LET profitable_opps == SelectSeq(response.opportunities,
                                          LAMBDA o : o.is_profitable_after_fees)
         IN  IF Len(profitable_opps) = 0 THEN <<>>
             ELSE LET best_opp == profitable_opps[1]
                  IN  IF best_opp.net_margin >= MIN_PROFIT_MARGIN
                      THEN <<best_opp>> ELSE <<>>

\* "Auto-trade logic", without the enabled flag: the opportunity the cycle
\* dispatches, as a sequence of length 0 or 1
AutoTradeCandidate(response) ==
    IF Len(response.opportunities) = 0 \/ response.transition_blocked THEN <<>>
    ELSE LET profitable_opps == SelectSeq(response.opportunities,
                                          LAMBDA o : o.is_profitable_after_fees)
         IN  IF Len(profitable_opps) = 0 THEN <<>>
             ELSE LET best_opp == FirstMax(profitable_opps)
                  IN  IF best_opp.net_margin >= MIN_PROFIT_MARGIN
                      THEN <<best_opp>> ELSE <<>>

(***************************************************************************)
(* The service as a state machine.                                         *)
(*                                                                         *)
(* Threads: "arb" is the event loop running the async handler              *)
(* get_arbitrage_data; "man" is a worker thread running the sync handler   *)
(* manual_execute_trade.  toggle_auto_trade and get_trading_status run on  *)
(* further worker threads and are short enough to be one step each.        *)
(* execute_arbitrage_trade is called by both threads and is modelled step  *)
(* by step, since it works on the shared trading_state without a lock.     *)
(***************************************************************************)
VARIABLES
    env,               \* settings: credentials and PAPER_TRADING
    trading_state,     \* the module-level dict
    kalshi_trader,     \* "None" until created, then "ready" / "not_ready"
    polymarket_trader,
    pc,                \* each thread's position
    loc,               \* each thread's locals inside execute_arbitrage_trade
    response,          \* the /arbitrage response being built or just sent
    http,              \* the /trading/execute answer: 0 (none yet), 200, 409, 500
    log,               \* what each thread's request has logged so far: sets of [kind, type]
    calls,             \* place-order calls made so far, per venue
    clock,             \* dispatch attempts started so far (their timestamps)
    appended,          \* timestamps of the records in the order they were appended
    overlapped,        \* TRUE once two dispatch attempts were in flight together
    fn                 \* input and result of a function applied on its own

vars == << env, trading_state, kalshi_trader, polymarket_trader, pc, loc, response,
           http, log, calls, clock, appended, overlapped, fn >>

Threads == {"arb", "man"}

\* positions inside execute_arbitrage_trade
DispatchPcs == {"d_begin", "d_kalshi", "d_poly", "d_append", "d_trim", "d_assign", "d_return"}

NoOpp ==
    [ kalshi_strike |-> None, poly_leg |-> "", kalshi_leg |-> "", poly_cost |-> 0,
      kalshi_cost |-> 0, kalshi_ticker |-> FALSE, poly_token_ids |-> FALSE ]

\* the fields of a check that execute_arbitrage_trade reads
OppOf(check) ==
    [ kalshi_strike  |-> check.kalshi_strike,
      poly_leg       |-> check.poly_leg,
      kalshi_leg     |-> check.kalshi_leg,
      poly_cost      |-> check.poly_cost,
      kalshi_cost    |-> check.kalshi_cost,
      kalshi_ticker  |-> check.kalshi_ticker,
      poly_token_ids |-> check.poly_token_ids ]

EmptyLoc ==
    [ opportunity      |-> NoOpp,
      quantity         |-> 0,
      forced           |-> FALSE,
      revalidated      |-> FALSE,
      is_synced        |-> FALSE,
      has_anomaly      |-> FALSE,
      timestamp        |-> 0,
      kalshi_order     |-> "None",
      polymarket_order |-> "None",
      kalshi_called    |-> FALSE,
      poly_called      |-> FALSE,
      status           |-> "pending",
      slice            |-> <<>> ]

NoFn == [name |-> "none"]

InitTradingState ==
    [ auto_trade_enabled |-> FALSE,
      last_auto_trade    |-> None,
      trade_history      |-> <<>>,
      kalshi_ready       |-> FALSE,
      polymarket_ready   |-> FALSE ]

InitCommon ==
    /\ trading_state = InitTradingState
    /\ kalshi_trader = "None"
    /\ polymarket_trader = "None"
    /\ pc = [t \in Threads |-> "idle"]
    /\ loc = [t \in Threads |-> EmptyLoc]
    /\ response = EmptyResponse
    /\ http = 0
    /\ log = [t \in Threads |-> {}]
    /\ calls = [kalshi |-> 0, polymarket |-> 0]
    /\ clock = 0
    /\ appended = <<>>
    /\ overlapped = FALSE

(***************************************************************************)
(* Lazy creation of the traders (get_kalshi_trader, get_polymarket_trader) *)
(* as the new values of the trader and of its readiness flag.              *)
(***************************************************************************)
\* KalshiTrader(): initialised iff the credentials are set and the client starts
NewKalshiTrader == IF env.kalshi_ok THEN "ready" ELSE "not_ready"

NewPolymarketTrader == IF env.poly_ok THEN "ready" ELSE "not_ready"

get_kalshi_trader == IF kalshi_trader = "None" THEN NewKalshiTrader ELSE kalshi_trader

get_polymarket_trader ==
    IF polymarket_trader = "None" THEN NewPolymarketTrader ELSE polymarket_trader

\* trading_state after both getters ran
StateAfterGetters(ts) ==
    [ts EXCEPT !.kalshi_ready = IF kalshi_trader = "None"
                                THEN (get_kalshi_trader = "ready") ELSE @,
               !.polymarket_ready = IF polymarket_trader = "None"
                                    THEN (get_polymarket_trader = "ready") ELSE @]

GetTraders ==
    /\ kalshi_trader' = get_kalshi_trader
    /\ polymarket_trader' = get_polymarket_trader
    /\ trading_state' = StateAfterGetters(trading_state)

(***************************************************************************)
(* GET /trading/status and POST /trading/auto-trade.                       *)
(***************************************************************************)
get_trading_status ==
    /\ GetTraders
    /\ UNCHANGED << env, pc, loc, response, http, log, calls, clock, appended,
                    overlapped, fn >>

\* variant: disabling auto-trade also forgets the last auto-trade
toggle_auto_trade_resets(enabled) ==
    /\ IF enabled
       THEN /\ kalshi_trader' = get_kalshi_trader
            /\ polymarket_trader' = get_polymarket_trader
            /\ trading_state' = [StateAfterGetters(trading_state)
                                     EXCEPT !.auto_trade_enabled = enabled]
       ELSE /\ trading_state' = [trading_state EXCEPT !.auto_trade_enabled = enabled,
                                                      !.last_auto_trade = None]
            /\ UNCHANGED << kalshi_trader, polymarket_trader >>
    /\ UNCHANGED << env, pc, loc, response, http, log, calls, clock, appended,
                    overlapped, fn >>

toggle_auto_trade(enabled) ==
    /\ IF enabled
       THEN /\ kalshi_trader' = get_kalshi_trader
            /\ polymarket_trader' = get_polymarket_trader
            /\ trading_state' = [StateAfterGetters(trading_state)
                                     EXCEPT !.auto_trade_enabled = enabled]
       ELSE /\ trading_state' = [trading_state EXCEPT !.auto_trade_enabled = enabled]
            /\ UNCHANGED << kalshi_trader, polymarket_trader >>
    /\ UNCHANGED << env, pc, loc, response, http, log, calls, clock, appended,
                    overlapped, fn >>

(***************************************************************************)
(* execute_arbitrage_trade(opportunity, quantity), run by thread t.        *)
(***************************************************************************)
InFlightPcs == DispatchPcs \ {"d_begin"}

\* the call: traders fetched, timestamp taken, trade_record created "pending"
DBegin(t) ==
    /\ pc[t] = "d_begin"
    /\ GetTraders
    /\ clock' = clock + 1
    /\ loc' = [loc EXCEPT ![t].timestamp = clock + 1,
                          ![t].kalshi_order = "None",
                          ![t].polymarket_order = "None",
                          ![t].status = "pending"]
    /\ overlapped' = (overlapped \/ \E u \in Threads \ {t} : pc[u] \in InFlightPcs)
    /\ pc' = [pc EXCEPT ![t] = "d_kalshi"]
    /\ UNCHANGED << env, response, http, log, calls, appended, fn >>

\* what place_order / place_limit_order can return on an initialised trader:
\* the paper-trade dict or the venue's response ("ok"), or None after an
\* exception in live mode
PlaceOutcomes == IF env.paper THEN {"ok"} ELSE {"ok", "None"}

\* "Execute Kalshi leg"
DKalshi(t) ==
    /\ pc[t] = "d_kalshi"
    /\ IF kalshi_trader = "ready"
       THEN IF ~loc[t].opportunity.kalshi_ticker
            THEN /\ loc' = [loc EXCEPT ![t].kalshi_order = "error: Kalshi ticker missing"]
                 /\ calls' = calls
            ELSE \E kalshi_result \in PlaceOutcomes :
                 /\ loc' = [loc EXCEPT ![t].kalshi_order = kalshi_result,
                                       ![t].kalshi_called = TRUE]
                 /\ calls' = [calls EXCEPT !.kalshi = @ + 1]
       ELSE /\ loc' = [loc EXCEPT ![t].kalshi_order = "error: Kalshi not ready"]
            /\ calls' = calls
    /\ pc' = [pc EXCEPT ![t] = "d_poly"]
    /\ UNCHANGED << env, trading_state, kalshi_trader, polymarket_trader, response,
                    http, log, clock, appended, overlapped, fn >>

\* variant: the Polymarket leg is skipped when the Kalshi leg did not succeed
DPolyAfterKalshiOnly(t) ==
    /\ pc[t] = "d_poly"
    /\ IF loc[t].kalshi_order /= "ok"
       THEN /\ loc' = loc
            /\ calls' = calls
       ELSE IF polymarket_trader = "ready"
       THEN IF ~loc[t].opportunity.poly_token_ids
            THEN /\ loc' = [loc EXCEPT ![t].polymarket_order = "error: Token ID missing"]
                 /\ calls' = calls
            ELSE \E polymarket_result \in PlaceOutcomes :
                 /\ loc' = [loc EXCEPT ![t].polymarket_order = polymarket_result,
                                       ![t].poly_called = TRUE]
                 /\ calls' = [calls EXCEPT !.polymarket = @ + 1]
       ELSE /\ loc' = [loc EXCEPT ![t].polymarket_order = "error: Polymarket not ready"]
            /\ calls' = calls
    /\ pc' = [pc EXCEPT ![t] = "d_append"]
    /\ UNCHANGED << env, trading_state, kalshi_trader, polymarket_trader, response,
                    http, log, clock, appended, overlapped, fn >>

\* "Execute Polymarket leg"
DPoly(t) ==
    /\ pc[t] = "d_poly"
    /\ IF polymarket_trader = "ready"
       THEN IF ~loc[t].opportunity.poly_token_ids
            THEN /\ loc' = [loc EXCEPT ![t].polymarket_order = "error: Token ID missing"]
                 /\ calls' = calls
            ELSE \E polymarket_result \in PlaceOutcomes :
                 /\ loc' = [loc EXCEPT ![t].polymarket_order = polymarket_result,
                                       ![t].poly_called = TRUE]
                 /\ calls' = [calls EXCEPT !.polymarket = @ + 1]
       ELSE /\ loc' = [loc EXCEPT ![t].polymarket_order = "error: Polymarket not ready"]
            /\ calls' = calls
    /\ pc' = [pc EXCEPT ![t] = "d_append"]
    /\ UNCHANGED << env, trading_state, kalshi_trader, polymarket_trader, response,
                    http, log, clock, appended, overlapped, fn >>

\* bool(order): None is falsy, a non-empty dict or a response object is truthy
Truthy(order) == order /= "None"

\* "error" in str(order)
HasError(order) == order \in { "error: Kalshi ticker missing", "error: Kalshi not ready",
                               "error: Token ID missing", "error: Polymarket not ready" }

\* "Determine overall status"
OverallStatus(kalshi_order, polymarket_order) ==
    IF Truthy(kalshi_order) /\ Truthy(polymarket_order)
    THEN IF ~HasError(kalshi_order) /\ ~HasError(polymarket_order)
         THEN "executed" ELSE "partial"
    ELSE "failed"

\* the trade_record as stored in the history.  The opportunity snapshot and the
\* quantity it also carries stay in loc: nothing reads them from the history.
TradeRecord(t, status) ==
    [ timestamp        |-> loc[t].timestamp,
      by               |-> t,
      kalshi_order     |-> loc[t].kalshi_order,
      polymarket_order |-> loc[t].polymarket_order,
      status           |-> status ]

\* status, then trading_state["trade_history"].append(trade_record)
DAppend(t) ==
    /\ pc[t] = "d_append"
    /\ LET status == OverallStatus(loc[t].kalshi_order, loc[t].polymarket_order)
       IN  /\ loc' = [loc EXCEPT ![t].status = status]
           /\ trading_state' = [trading_state EXCEPT
                                  !.trade_history = Append(@, TradeRecord(t, status))]
    /\ appended' = Append(appended, loc[t].timestamp)
    /\ pc' = [pc EXCEPT ![t] = "d_trim"]
    /\ UNCHANGED << env, kalshi_trader, polymarket_trader, response, http, log, calls,
                    clock, overlapped, fn >>

\* variant: the slice keeps the first HISTORY_CAP records ([:100])
DTrimKeepsOldest(t) ==
    /\ pc[t] = "d_trim"
    /\ IF Len(trading_state.trade_history) > HISTORY_CAP
       THEN /\ loc' = [loc EXCEPT ![t].slice =
                                    SubSeq(trading_state.trade_history, 1, HISTORY_CAP)]
            /\ pc' = [pc EXCEPT ![t] = "d_assign"]
       ELSE /\ loc' = loc
            /\ pc' = [pc EXCEPT ![t] = "d_return"]
    /\ UNCHANGED << env, trading_state, kalshi_trader, polymarket_trader, response, http,
                    log, calls, clock, appended, overlapped, fn >>

\* "if len(trade_history) > 100:" and the evaluation of trade_history[-100:]
DTrim(t) ==
    /\ pc[t] = "d_trim"
    /\ IF Len(trading_state.trade_history) > HISTORY_CAP
       THEN /\ loc' = [loc EXCEPT ![t].slice = LastN(trading_state.trade_history, HISTORY_CAP)]
            /\ pc' = [pc EXCEPT ![t] = "d_assign"]
       ELSE /\ loc' = loc
            /\ pc' = [pc EXCEPT ![t] = "d_return"]
    /\ UNCHANGED << env, trading_state, kalshi_trader, polymarket_trader, response, http,
                    log, calls, clock, appended, overlapped, fn >>

\* the store trading_state["trade_history"] = <the slice>
DAssign(t) ==
    /\ pc[t] = "d_assign"
    /\ trading_state' = [trading_state EXCEPT !.trade_history = loc[t].slice]
    /\ loc' = [loc EXCEPT ![t].slice = <<>>]
    /\ pc' = [pc EXCEPT ![t] = "d_return"]
    /\ UNCHANGED << env, kalshi_trader, polymarket_trader, response, http, log, calls,
                    clock, appended, overlapped, fn >>

\* "if trade_result:" / "if result:" on the returned trade_record, a non-empty dict
ResultTruthy(status) == TRUE

\* print and return trade_record, and the caller's lines after the call
DReturn(t) ==
    /\ pc[t] = "d_return"
    /\ log' = [log EXCEPT ![t] = @ \cup {[kind |-> "print", type |-> "Trade"]}]
    /\ IF t = "arb"
       THEN /\ IF ResultTruthy(loc[t].status)
               THEN /\ trading_state' = [trading_state EXCEPT
                                           !.last_auto_trade = loc[t].timestamp]
                    /\ response' = [response EXCEPT
                                      !.auto_trade_executed = loc[t].timestamp]
               ELSE UNCHANGED << trading_state, response >>
            /\ http' = http
       ELSE /\ http' = IF ResultTruthy(loc[t].status) THEN 200 ELSE 500
            /\ UNCHANGED << trading_state, response >>
    /\ pc' = [pc EXCEPT ![t] = "respond"]
    /\ UNCHANGED << env, kalshi_trader, polymarket_trader, loc, calls, clock, appended,
                    overlapped, fn >>

(***************************************************************************)
(* GET /arbitrage: get_arbitrage_data.  fetched is what the acquisition    *)
(* delivered: [poly_data, kalshi_data, poly_err, kalshi_err].  The step    *)
(* runs the handler from the end of the fetch to the auto-trade decision;  *)
(* when it decides to trade, execute_arbitrage_trade follows step by step. *)
(***************************************************************************)
\* dispatch attempts started or about to start
Committed == clock + Cardinality({ t \in Threads : pc[t] = "d_begin" })

\* limit bounds the number of dispatch attempts of a run
ArbCycle(fetched, minute, contracts, limit) ==
    /\ pc["arb"] = "idle"
    /\ LET r    == Evaluate(fetched.poly_data, fetched.kalshi_data, fetched.poly_err,
                            fetched.kalshi_err, minute, contracts)
           cand == IF trading_state.auto_trade_enabled THEN AutoTradeCandidate(r) ELSE <<>>
       IN  /\ response' = r
           /\ log' = IF r.transition_blocked
                     THEN [log EXCEPT !["arb"] = {[kind |-> "event", type |-> "TRANSITION_BLOCK"]}]
                     ELSE log
           /\ IF Len(cand) > 0
              THEN /\ Committed < limit
                   /\ loc' = [loc EXCEPT !["arb"] =
                                [EmptyLoc EXCEPT !.opportunity = OppOf(cand[1]),
                                                 !.quantity = contracts]]
                   /\ pc' = [pc EXCEPT !["arb"] = "d_begin"]
              ELSE /\ loc' = loc
                   /\ pc' = [pc EXCEPT !["arb"] = "respond"]
    /\ UNCHANGED << env, trading_state, kalshi_trader, polymarket_trader, http, calls,
                    clock, appended, overlapped, fn >>

\* "return response"
ArbRespond ==
    /\ pc["arb"] = "respond"
    /\ response' = EmptyResponse
    /\ loc' = [loc EXCEPT !["arb"] = EmptyLoc]
    /\ log' = [log EXCEPT !["arb"] = {}]
    /\ pc' = [pc EXCEPT !["arb"] = "idle"]
    /\ UNCHANGED << env, trading_state, kalshi_trader, polymarket_trader, http,
                    calls, clock, appended, overlapped, fn >>

(***************************************************************************)
(* POST /trading/execute: manual_execute_trade(trade, force).  fetched is  *)
(* what the two sequential fetches of the re-validation delivered (read    *)
(* only when force is false).                                              *)
(***************************************************************************)
\* trade_data: the request's fields; it has no kalshi_ticker and no poly_token_ids
TradeData(trade) ==
    [ kalshi_strike  |-> trade.kalshi_strike,
      poly_leg       |-> trade.poly_leg,
      kalshi_leg     |-> trade.kalshi_leg,
      poly_cost      |-> trade.poly_cost,
      kalshi_cost    |-> trade.kalshi_cost,
      kalshi_ticker  |-> FALSE,
      poly_token_ids |-> FALSE ]

\* variant: the re-validation rejects only on a detected anomaly
ManualBlockedAnomalyOnly(is_synced, has_anomaly) == has_anomaly

\* "if not is_synced or has_anomaly"
ManualBlocked(is_synced, has_anomaly) == ~is_synced \/ has_anomaly

ManualExecute(trade, force, fetched, minute, limit) ==
    /\ pc["man"] = "idle"
    /\ LET is_synced   == validate_market_sync(fetched.poly_data, fetched.kalshi_data,
                                               minute).is_valid
           has_anomaly == detect_market_transition_anomaly(fetched.poly_data,
                                                           fetched.kalshi_data,
                                                           minute).has_anomaly
           checked     == [EmptyLoc EXCEPT !.revalidated = ~force,
                                           !.is_synced = ~force /\ is_synced,
                                           !.has_anomaly = ~force /\ has_anomaly]
       IN  IF ~force /\ ManualBlocked(is_synced, has_anomaly)
           THEN /\ http' = 409
                /\ log' = [log EXCEPT !["man"] =
                             {[kind |-> "warning", type |-> "Manual trade blocked"]}]
                /\ loc' = [loc EXCEPT !["man"] = checked]
                /\ pc' = [pc EXCEPT !["man"] = "respond"]
                /\ UNCHANGED << trading_state, kalshi_trader, polymarket_trader >>
           ELSE /\ Committed < limit
                /\ GetTraders
                /\ http' = 0
                /\ log' = log
                /\ loc' = [loc EXCEPT !["man"] =
                             [checked EXCEPT !.opportunity = TradeData(trade),
                                             !.quantity = trade.quantity,
                                             !.forced = force]]
                /\ pc' = [pc EXCEPT !["man"] = "d_begin"]
    /\ UNCHANGED << env, response, calls, clock, appended, overlapped, fn >>

\* the answer leaves: 200 / 409 / 500
ManRespond ==
    /\ pc["man"] = "respond"
    /\ http' = 0
    /\ loc' = [loc EXCEPT !["man"] = EmptyLoc]
    /\ log' = [log EXCEPT !["man"] = {}]
    /\ pc' = [pc EXCEPT !["man"] = "idle"]
    /\ UNCHANGED << env, trading_state, kalshi_trader, polymarket_trader, response,
                    calls, clock, appended, overlapped, fn >>

(***************************************************************************)
(* Inputs.  Strikes 1, 2, 3 stand for 92500, 93000, 93500.  The quotes     *)
(* avoid a continuous cost of exactly 0.500, where round(x, 4) of the net  *)
(* margin is a tie that the binary representation decides.                 *)
(***************************************************************************)
Entry(s, y, n, t) == [strike |-> s, yes_ask |-> y, no_ask |-> n, ticker |-> t]

PolyData(strike, up, down, target, tokens) ==
    [ present         |-> TRUE,
      price_to_beat   |-> strike,
      prices          |-> [Up |-> up, Down |-> down],
      target_time_utc |-> target,
      token_ids       |-> tokens ]

KalshiData(markets) == [present |-> TRUE, markets |-> markets]

Fetched(poly_data, kalshi_data) ==
    [ poly_data   |-> poly_data,
      kalshi_data |-> kalshi_data,
      poly_err    |-> IF poly_data.present THEN "" ELSE "Polymarket Error",
      kalshi_err  |-> IF kalshi_data.present THEN "" ELSE "Kalshi Error" ]

\* the ladders of the /arbitrage cycles
MainLadders ==
    { << Entry(2, 45, 56, TRUE) >>,
      << Entry(1, 40, 61, TRUE), Entry(2, 45, 56, TRUE), Entry(3, 50, 51, TRUE) >>,
      << Entry(3, 50, 40, TRUE), Entry(2, 45, 56, TRUE), Entry(1, 40, 61, FALSE) >> }

MainPolyData ==
    { NoData, PolyData(2, 480, 530, 0, TRUE), PolyData(2, 15, 985, 0, TRUE),
      PolyData(2, 480, 530, 3600, TRUE) }

MainKalshiData == { NoData } \cup { KalshiData(l) : l \in MainLadders }

MainFetched == { Fetched(p, k) : p \in MainPolyData, k \in MainKalshiData }

MainMinutes == {30, 59}

MainContracts == {100}

\* what the re-validation of POST /trading/execute fetches
ManFetched ==
    { Fetched(p, k) :
        p \in { NoData, PolyData(2, 480, 530, 0, FALSE), PolyData(2, 15, 985, 0, FALSE) },
        k \in { NoData, KalshiData(<< Entry(2, 45, 56, TRUE) >>) } }

\* the bodies of POST /trading/execute
MainTrades ==
    { [ kalshi_strike |-> 2, poly_leg |-> "Down", kalshi_leg |-> "Yes",
        poly_cost |-> 530, kalshi_cost |-> 450, quantity |-> 1 ],
      [ kalshi_strike |-> 3, poly_leg |-> "Up", kalshi_leg |-> "No",
        poly_cost |-> 480, kalshi_cost |-> 400, quantity |-> 100 ] }

EnvSet == [kalshi_ok : BOOLEAN, poly_ok : BOOLEAN, paper : BOOLEAN]

(***************************************************************************)
(* The service: every handler, the two threads interleaving.               *)
(***************************************************************************)
MaxDispatch == 2

Init ==
    /\ env \in EnvSet
    /\ fn = NoFn
    /\ InitCommon

\* A handler that has its answer hands it over before anything else runs:
\* handing over touches only the handler's own locals, so every interleaving
\* is equivalent to one in which it comes first.
Settled == \A t \in Threads : pc[t] /= "respond"

\* A run of Spec holds at most MaxDispatch + 1 records, far below
\* HISTORY_CAP: the store of the trimmed history (DAssign) is never enabled
\* here and is a step of SpecHist.
Next ==
    \/ Settled /\ get_trading_status
    \/ Settled /\ \E enabled \in BOOLEAN : toggle_auto_trade(enabled)
    \/ Settled /\ \E fetched \in MainFetched, minute \in MainMinutes,
                      contracts \in MainContracts :
                      ArbCycle(fetched, minute, contracts, MaxDispatch)
    \/ ArbRespond
    \/ Settled /\ \E trade \in MainTrades, force \in BOOLEAN, fetched \in ManFetched,
                      minute \in MainMinutes :
                      ManualExecute(trade, force, fetched, minute, MaxDispatch)
    \/ ManRespond
    \/ Settled /\ \E t \in Threads : DBegin(t)
    \/ Settled /\ \E t \in Threads : DKalshi(t)
    \/ Settled /\ \E t \in Threads : DPoly(t)
    \/ Settled /\ \E t \in Threads : DAppend(t)
    \/ Settled /\ \E t \in Threads : DTrim(t)
    \/ Settled /\ \E t \in Threads : DReturn(t)

Spec == Init /\ [][Next]_vars

(***************************************************************************)
(* The history at its bound: both traders ready in paper mode, one market  *)
(* state with an opportunity, auto-trade cycles filling the history and    *)
(* manual requests arriving once it is nearly full.                        *)
(***************************************************************************)
MaxHistDispatch == 102

HistFetched ==
    Fetched(PolyData(2, 480, 530, 0, TRUE), KalshiData(<< Entry(1, 40, 61, TRUE) >>))

HistTrade ==
    [ kalshi_strike |-> 1, poly_leg |-> "Down", kalshi_leg |-> "Yes",
      poly_cost |-> 530, kalshi_cost |-> 400, quantity |-> 100 ]

InitHist ==
    /\ env = [kalshi_ok |-> TRUE, poly_ok |-> TRUE, paper |-> TRUE]
    /\ fn = NoFn
    /\ InitCommon

NextHist ==
    \/ Settled /\ ~trading_state.auto_trade_enabled /\ toggle_auto_trade(TRUE)
    \/ Settled /\ ArbCycle(HistFetched, 30, 100, MaxHistDispatch)
    \/ ArbRespond
    \/ Settled /\ clock >= HISTORY_CAP - 1
               /\ ManualExecute(HistTrade, TRUE, HistFetched, 30, MaxHistDispatch)
    \/ ManRespond
    \/ Settled /\ \E t \in Threads : DBegin(t)
    \/ Settled /\ \E t \in Threads : DKalshi(t)
    \/ Settled /\ \E t \in Threads : DPoly(t)
    \/ Settled /\ \E t \in Threads : DAppend(t)
    \/ Settled /\ \E t \in Threads : DTrim(t)
    \/ Settled /\ \E t \in Threads : DAssign(t)
    \/ Settled /\ \E t \in Threads : DReturn(t)

SpecHist == InitHist /\ [][NextHist]_vars

(***************************************************************************)
(* The window selection alone: "Sort Kalshi markets by strike" to          *)
(* "selected_markets", applied to one ladder and one reference strike.     *)
(***************************************************************************)
MaxLadder == 11

\* strikes two apart, except that entry d (if d > 0) repeats the strike
\* before it and entry g (if g > 0) lies four above the one before it
WindowStrike(i, d, g) ==
    2 * i - (IF d > 0 /\ i >= d THEN 2 ELSE 0) + (IF g > 0 /\ i >= g THEN 2 ELSE 0)

WindowLadder(n, d, g) == [i \in 1..n |-> Entry(WindowStrike(i, d, g), 45, 56, TRUE)]

Reverse(s) == [i \in 1..Len(s) |-> s[Len(s) + 1 - i]]

WindowInputs ==
    { [ name |-> "SelectWindow", kalshi_markets |-> IF rev THEN Reverse(l) ELSE l,
        poly_strike |-> r, done |-> FALSE, sorted |-> <<>>, selected_markets |-> <<>> ] :
        l \in { WindowLadder(n, d, g) : n \in 0..MaxLadder, d \in 0..MaxLadder,
                                        g \in 0..MaxLadder },
        r \in 0..(2 * MaxLadder + 4), rev \in BOOLEAN }

InitWindow ==
    /\ env = [kalshi_ok |-> TRUE, poly_ok |-> TRUE, paper |-> TRUE]
    /\ fn \in WindowInputs
    /\ InitCommon

ApplySelectWindow ==
    /\ fn.name = "SelectWindow"
    /\ ~fn.done
    /\ LET kalshi_markets == SortByStrike(fn.kalshi_markets)
       IN  fn' = [fn EXCEPT !.done = TRUE,
                            !.sorted = kalshi_markets,
                            !.selected_markets = SelectWindow(kalshi_markets,
                                                              fn.poly_strike)]
    /\ UNCHANGED << env, trading_state, kalshi_trader, polymarket_trader, pc, loc,
                    response, http, log, calls, clock, appended, overlapped >>

NextWindow == ApplySelectWindow

SpecWindow == InitWindow /\ [][NextWindow]_vars

(***************************************************************************)
(* One evaluation alone: what get_arbitrage_data computes from the fetched *)
(* data, the wall-clock minute and the contracts parameter, over a wider   *)
(* range of ladders and prices than the service runs use.                  *)
(***************************************************************************)
MaxEvalLadder == 3

EvalEntries ==
    { Entry(s, a[1], a[2], TRUE) :
        s \in 1..3, a \in { <<45, 56>>, <<40, 61>>, <<56, 45>> } }

EvalLadders == UNION { [1..n -> EvalEntries] : n \in 0..MaxEvalLadder }

EvalPolyData ==
    { PolyData(2, 480, 530, 0, TRUE), PolyData(2, 440, 570, 0, TRUE),
      PolyData(2, 15, 985, 0, TRUE), PolyData(None, 480, 530, 0, TRUE) }

EvalInputs ==
    { [ name |-> "Evaluate", poly_data |-> p, kalshi_data |-> KalshiData(l),
        minute |-> m, contracts |-> c, done |-> FALSE, response |-> EmptyResponse ] :
        p \in EvalPolyData, l \in EvalLadders, m \in MainMinutes, c \in ContractsSet }

InitEval ==
    /\ env = [kalshi_ok |-> TRUE, poly_ok |-> TRUE, paper |-> TRUE]
    /\ fn \in EvalInputs
    /\ InitCommon

ApplyEvaluate ==
    /\ fn.name = "Evaluate"
    /\ ~fn.done
    /\ fn' = [fn EXCEPT !.done = TRUE,
                        !.response = Evaluate(fn.poly_data, fn.kalshi_data, "", "",
                                              fn.minute, fn.contracts)]
    /\ UNCHANGED << env, trading_state, kalshi_trader, polymarket_trader, pc, loc,
                    response, http, log, calls, clock, appended, overlapped >>

NextEval == ApplyEvaluate

SpecEval == InitEval /\ [][NextEval]_vars

(***************************************************************************)
(* The fee functions alone, on the whole cent grid of the discrete venue.  *)
(***************************************************************************)
FeeContracts == {1, 3, 4, 25, 100}

FeePolyCosts == {0, 15, 440, 480, 530, 985}

FeeInputs ==
    { [ name |-> "fees", contracts |-> c, kalshi_cents |-> k, poly_cost |-> p,
        done |-> FALSE, kalshi_fee |-> None, fee_per_contract |-> None,
        polymarket_fee |-> None, breakdown |-> [present |-> FALSE] ] :
        c \in FeeContracts, k \in 0..100, p \in FeePolyCosts }

InitFees ==
    /\ env = [kalshi_ok |-> TRUE, poly_ok |-> TRUE, paper |-> TRUE]
    /\ fn \in FeeInputs
    /\ InitCommon

ApplyFees ==
    /\ fn.name = "fees"
    /\ ~fn.done
    /\ fn' = [fn EXCEPT
                !.done = TRUE,
                !.kalshi_fee = calculate_kalshi_fee(fn.contracts, fn.kalshi_cents),
                !.fee_per_contract = calculate_kalshi_fee_per_contract(fn.kalshi_cents),
                !.polymarket_fee = calculate_polymarket_fee(fn.contracts, fn.poly_cost),
                !.breakdown = calculate_arbitrage_with_fees(fn.poly_cost, fn.kalshi_cents,
                                                            fn.contracts)]
    /\ UNCHANGED << env, trading_state, kalshi_trader, polymarket_trader, pc, loc,
                    response, http, log, calls, clock, appended, overlapped >>

NextFees == ApplyFees

SpecFees == InitFees /\ [][NextFees]_vars

(***************************************************************************)
(* The two transition tests alone: validate_market_sync and                *)
(* detect_market_transition_anomaly on one fetched state at one minute.    *)
(***************************************************************************)
MaxSyncLadder == 3

\* an ordinary entry, one with an extreme yes ask, one with an extreme no ask
SyncEntries == { Entry(1, 45, 56, TRUE), Entry(2, 2, 97, TRUE), Entry(3, 3, 98, TRUE) }

SyncLadders == UNION { [1..n -> SyncEntries] : n \in 0..MaxSyncLadder }

\* (Up, Down) in mills; None for a key the prices dict does not hold
SyncPrices ==
    { << None, None >>, << 0, 0 >>, << 0, 970 >>, << 10, 985 >>, << 11, 989 >>,
      << 20, 975 >>, << 21, 979 >>, << 480, 530 >>, << 480, 300 >>, << 700, 460 >>,
      << 980, 25 >>, << 985, 990 >> }

\* (price_to_beat, target_time_utc): the hourly open, and the distance in
\* seconds of the target time from the start of the current hour
SyncStrikeAndTarget ==
    { << 2, 0 >>, << 2, 300 >>, << 2, 301 >>, << 2, None >>, << None, 0 >> }

SyncPolyData ==
    { NoData } \cup
    { PolyData(st[1], p[1], p[2], st[2], TRUE) : st \in SyncStrikeAndTarget, p \in SyncPrices }

SyncKalshiData == { NoData } \cup { KalshiData(l) : l \in SyncLadders }

SyncMinutes == {0, 2, 3, 5, 6, 30, 54, 55, 57, 58, 59}

InitSync ==
    /\ env = [kalshi_ok |-> TRUE, poly_ok |-> TRUE, paper |-> TRUE]
    /\ fn \in
          { [ name |-> "sync", poly_data |-> p, kalshi_data |-> k, minute |-> m,
              done |-> FALSE, sync |-> [is_valid |-> FALSE, issues |-> <<>>],
              anomaly |-> [has_anomaly |-> FALSE, reason |-> ""] ] :
              p \in SyncPolyData, k \in SyncKalshiData, m \in SyncMinutes }
    /\ InitCommon

ApplySync ==
    /\ fn.name = "sync"
    /\ ~fn.done
    /\ fn' = [fn EXCEPT
                !.done = TRUE,
                !.sync = validate_market_sync(fn.poly_data, fn.kalshi_data, fn.minute),
                !.anomaly = detect_market_transition_anomaly(fn.poly_data, fn.kalshi_data,
                                                             fn.minute)]
    /\ UNCHANGED << env, trading_state, kalshi_trader, polymarket_trader, pc, loc,
                    response, http, log, calls, clock, appended, overlapped >>

NextSync == ApplySync

SpecSync == InitSync /\ [][NextSync]_vars

(***************************************************************************)
(* Quote acquisition: the sub-fetches of one cycle, each of which may      *)
(* fail, the errors the fetchers hand back and the two error slots of      *)
(* get_arbitrage_data, followed by the evaluation of what was fetched.     *)
(***************************************************************************)
\* the sub-fetches: event metadata, Binance current price, Binance hourly
\* open (kline), Kalshi ladder, best ask of the Up and of the Down token
FetchSources == {"metadata", "current", "kline", "ladder", "up", "down"}

\* "async": fetch_all_data_async; "sync": the sequential fallback
FetchPaths == {"async", "sync"}

\* what fetch_json (async) or the except clause (sync) reports for a
\* failed request to the source
RequestError(source) ==
    CASE source = "metadata" -> "Error fetching https://gamma-api.polymarket.com/events"
      [] source = "current"  -> "Error fetching https://api.binance.us/api/v3/ticker/price"
      [] source = "kline"    -> "Error fetching https://api.binance.us/api/v3/klines"
      [] source = "ladder"   -> "Error fetching https://api.elections.kalshi.com/trade-api/v2/markets"
      [] source = "up"       -> "Error fetching https://clob.polymarket.com/book?token_id=Up"
      [] source = "down"     -> "Error fetching https://clob.polymarket.com/book?token_id=Down"

\* the error with the prefix the async fetcher of the source puts before it
FetcherError(source) ==
    CASE source = "metadata" ->
             "Polymarket metadata error: Error fetching https://gamma-api.polymarket.com/events"
      [] source = "ladder" ->
             "Kalshi error: Error fetching https://api.elections.kalshi.com/trade-api/v2/markets"

\* the errors the sequential fetchers report
SyncPolymarketError == "Polymarket Error: Error fetching https://gamma-api.polymarket.com/events"
SyncKalshiError == "Kalshi Error: Error fetching https://api.elections.kalshi.com/trade-api/v2/markets"

\* "polymarket" in err.lower()
MentionsPolymarket(err) ==
    err \in { FetcherError("metadata"), SyncPolymarketError, RequestError("metadata"),
              RequestError("up"), RequestError("down") }

\* "kalshi" in err.lower()
MentionsKalshi(err) ==
    err \in { FetcherError("ladder"), SyncKalshiError, RequestError("ladder") }

\* variant: a failed current-price request gives up the hourly open as well
fetch_binance_prices_abort(fails) ==
    IF "current" \in fails
    THEN [ current_price |-> None, open_price |-> None, error |-> RequestError("current") ]
    ELSE [ current_price |-> 2,
           open_price    |-> IF "kline" \in fails THEN None ELSE 2,
           error         |-> IF "kline" \in fails THEN RequestError("kline") ELSE "" ]

\* (current_price, open_price, error): one error slot for both requests
fetch_binance_prices(fails) ==
    [ current_price |-> IF "current" \in fails THEN None ELSE 2,
      open_price    |-> IF "kline" \in fails THEN None ELSE 2,
      error         |-> IF "current" \in fails THEN RequestError("current")
                        ELSE IF "kline" \in fails THEN RequestError("kline")
                        ELSE "" ]

\* the best ask of the token in mills, None when the request failed
fetch_clob_price(fails, source, ask) == IF source \in fails THEN None ELSE ask

\* (prices, error): a failed token is priced 0.0 and the error is always None
fetch_polymarket_prices(fails) ==
    LET up   == fetch_clob_price(fails, "up", 480)
        down == fetch_clob_price(fails, "down", 530)
    IN  [ prices |-> [Up   |-> IF up /= None THEN up ELSE 0,
                      Down |-> IF down /= None THEN down ELSE 0],
          error  |-> "" ]

fetch_all_data_async(fails, ladder) ==
    LET meta_err    == IF "metadata" \in fails THEN FetcherError("metadata") ELSE ""
        binance     == fetch_binance_prices(fails)
        kalshi_err  == IF "ladder" \in fails THEN FetcherError("ladder") ELSE ""
        errors      == (IF meta_err /= "" THEN << meta_err >> ELSE <<>>)
                       \o (IF binance.error /= "" THEN << binance.error >> ELSE <<>>)
                       \o (IF kalshi_err /= "" THEN << kalshi_err >> ELSE <<>>)
        poly_prices == IF meta_err = "" THEN fetch_polymarket_prices(fails).prices
                       ELSE [Up |-> None, Down |-> None]
    IN  [ polymarket |-> PolyData(binance.open_price, poly_prices.Up, poly_prices.Down,
                                  0, meta_err = ""),
          kalshi     |-> KalshiData(IF kalshi_err = "" THEN ladder ELSE <<>>),
          current_price |-> binance.current_price,
          errors     |-> errors ]

\* "Check for errors in async fetch": the two error slots after the loop
\* over all_data["errors"], started from (poly_err, kalshi_err)
RECURSIVE ClassifyErrors(_, _, _)
ClassifyErrors(errors, poly_err, kalshi_err) ==
    IF errors = <<>> THEN [poly_err |-> poly_err, kalshi_err |-> kalshi_err]
    ELSE LET err == Head(errors)
         IN  IF MentionsPolymarket(err)
             THEN ClassifyErrors(Tail(errors), err, kalshi_err)
             ELSE IF MentionsKalshi(err)
             THEN ClassifyErrors(Tail(errors), poly_err, err)
             ELSE ClassifyErrors(Tail(errors),
                                 IF poly_err /= "" THEN poly_err ELSE err, kalshi_err)

\* (data, error) of the sequential Polymarket fetch: the errors of the two
\* Binance requests and of the token requests are not handed back
fetch_polymarket_data_struct(fails) ==
    IF "metadata" \in fails
    THEN [data |-> NoData, err |-> SyncPolymarketError]
    ELSE [data |-> PolyData(IF "kline" \in fails THEN None ELSE 2,
                            IF "up" \in fails THEN 0 ELSE 480,
                            IF "down" \in fails THEN 0 ELSE 530, 0, TRUE),
          err  |-> ""]

\* (data, error) of the sequential Kalshi fetch
fetch_kalshi_data_struct(fails, ladder) ==
    IF "ladder" \in fails
    THEN [data |-> NoData, err |-> SyncKalshiError]
    ELSE [data |-> KalshiData(ladder), err |-> ""]

\* poly_data, kalshi_data, poly_err and kalshi_err after the fetch section
FetchCycle(path, fails, ladder) ==
    IF path = "async"
    THEN LET all_data == fetch_all_data_async(fails, ladder)
             slots    == ClassifyErrors(all_data.errors, "", "")
         IN  [ poly_data   |-> all_data.polymarket,
               kalshi_data |-> all_data.kalshi,
               poly_err    |-> slots.poly_err,
               kalshi_err  |-> slots.kalshi_err ]
    ELSE LET poly   == fetch_polymarket_data_struct(fails)
             kalshi == fetch_kalshi_data_struct(fails, ladder)
         IN  [ poly_data   |-> poly.data,
               kalshi_data |-> kalshi.data,
               poly_err    |-> poly.err,
               kalshi_err  |-> kalshi.err ]

\* the token requests are made only when the metadata was fetched
FetchFailures ==
    { f \in SUBSET FetchSources : "metadata" \in f => ("up" \notin f /\ "down" \notin f) }

InitFetch ==
    /\ env = [kalshi_ok |-> TRUE, poly_ok |-> TRUE, paper |-> TRUE]
    /\ fn \in
          { [ name |-> "fetch", path |-> p, fails |-> f, ladder |-> l, minute |-> m,
              contracts |-> c, done |-> FALSE,
              fetched |-> Fetched(NoData, NoData), response |-> EmptyResponse ] :
              p \in FetchPaths, f \in FetchFailures, l \in MainLadders, m \in MainMinutes,
              c \in MainContracts }
    /\ InitCommon

ApplyFetch ==
    /\ fn.name = "fetch"
    /\ ~fn.done
    /\ LET fetched == FetchCycle(fn.path, fn.fails, fn.ladder)
       IN  fn' = [fn EXCEPT
                    !.done = TRUE,
                    !.fetched = fetched,
                    !.response = Evaluate(fetched.poly_data, fetched.kalshi_data,
                                          fetched.poly_err, fetched.kalshi_err,
                                          fn.minute, fn.contracts)]
    /\ UNCHANGED << env, trading_state, kalshi_trader, polymarket_trader, pc, loc,
                    response, http, log, calls, clock, appended, overlapped >>

NextFetch == ApplyFetch

SpecFetch == InitFetch /\ [][NextFetch]_vars

(***************************************************************************)
(* The evaluation around the hour boundary: quotes at and next to the      *)
(* suspicious range, at the minutes on both sides of the boundary tests.   *)
(***************************************************************************)
MaxGuardLadder == 2

GuardEntries ==
    { Entry(s, a[1], a[2], TRUE) :
        s \in 1..3, a \in { <<45, 56>>, <<3, 97>>, <<4, 96>> } }

GuardLadders == UNION { [1..n -> GuardEntries] : n \in 0..MaxGuardLadder }

GuardPolyData ==
    { PolyData(2, 480, 530, 0, TRUE), PolyData(2, 440, 570, 0, TRUE),
      PolyData(2, 30, 975, 0, TRUE), PolyData(2, 31, 969, 0, TRUE) }

GuardMinutes == {0, 1, 2, 3, 30, 57, 58, 59}

InitGuard ==
    /\ env = [kalshi_ok |-> TRUE, poly_ok |-> TRUE, paper |-> TRUE]
    /\ fn \in
          { [ name |-> "Evaluate", poly_data |-> p, kalshi_data |-> KalshiData(l),
              minute |-> m, contracts |-> c, done |-> FALSE, response |-> EmptyResponse ] :
              p \in GuardPolyData, l \in GuardLadders, m \in GuardMinutes, c \in ContractsSet }
    /\ InitCommon

SpecGuard == InitGuard /\ [][NextEval]_vars

(***************************************************************************)
(* The per-hour metadata cache of the async fetcher: overlapping calls of  *)
(* fetch_polymarket_metadata on one event loop, the wall clock advancing   *)
(* by hours at any moment.  Time is counted in hours; the run starts in    *)
(* the last hour of a day.  The whole state is the record fn:              *)
(*   now             the wall-clock hour                                   *)
(*   cache           _metadata_cache, a set of [key, slug, stored_at]      *)
(*                   records with distinct keys: slug is the slug the      *)
(*                   metadata was fetched for, stored_at the hour of the   *)
(*                   store                                                 *)
(*   cache_timestamp _cache_timestamp, None or an hour                     *)
(*   at, cache_key, slug, ret                                              *)
(*                   per call: its position, its locals and what it        *)
(*                   returned last                                         *)
(***************************************************************************)
MaxCacheTicks == 2

MaxMetaCalls == 4

HoursPerDay == 24

StartHour == 23

MetaCalls == {1, 2}

Slugs == {"slug-a", "slug-b"}

\* now.strftime("%Y-%m-%d-%H"): the date and the hour of the day
get_cache_key(now) == << now \div HoursPerDay, now % HoursPerDay >>

is_cache_valid(cache_timestamp, now) ==
    IF cache_timestamp = None THEN FALSE
    ELSE /\ now % HoursPerDay = cache_timestamp % HoursPerDay
         /\ now \div HoursPerDay = cache_timestamp \div HoursPerDay

InitCache ==
    /\ env = [kalshi_ok |-> TRUE, poly_ok |-> TRUE, paper |-> TRUE]
    /\ fn = [ name            |-> "cache",
              now             |-> StartHour,
              cache           |-> {},
              cache_timestamp |-> None,
              at              |-> [c \in MetaCalls |-> "idle"],
              cache_key       |-> [c \in MetaCalls |-> << 0, 0 >>],
              slug            |-> [c \in MetaCalls |-> ""],
              ret             |-> [c \in MetaCalls |-> [kind |-> "none"]],
              calls           |-> 0 ]
    /\ InitCommon

CacheFrame ==
    UNCHANGED << env, trading_state, kalshi_trader, polymarket_trader, pc, loc,
                 response, http, log, calls, clock, appended, overlapped >>

\* a call between its two reads of the clock: no other call runs meanwhile
InCheck == \E c \in MetaCalls : fn.at[c] = "check"

\* the wall clock passes an hour boundary
CacheTick ==
    /\ fn.name = "cache"
    /\ fn.now < StartHour + MaxCacheTicks
    /\ fn' = [fn EXCEPT !.now = @ + 1]
    /\ CacheFrame

\* cache_key = get_cache_key()
MetaKey(c, slug) ==
    /\ fn.name = "cache"
    /\ fn.at[c] = "idle"
    /\ ~InCheck
    /\ fn.calls < MaxMetaCalls
    /\ fn' = [fn EXCEPT !.at[c] = "check",
                        !.cache_key[c] = get_cache_key(fn.now),
                        !.slug[c] = slug,
                        !.ret[c] = [kind |-> "none"],
                        !.calls = @ + 1]
    /\ CacheFrame

\* "if cache_key in _metadata_cache and is_cache_valid(): return ..." and,
\* otherwise, the request sent
MetaCheck(c) ==
    /\ fn.name = "cache"
    /\ fn.at[c] = "check"
    /\ LET hit == { e \in fn.cache : e.key = fn.cache_key[c] }
       IN  IF hit /= {} /\ is_cache_valid(fn.cache_timestamp, fn.now)
           THEN fn' = [fn EXCEPT
                         !.at[c] = "idle",
                         !.ret[c] = [kind |-> "cached", entry |-> CHOOSE e \in hit : TRUE,
                                     at |-> fn.now]]
           ELSE fn' = [fn EXCEPT !.at[c] = "fetching"]
    /\ CacheFrame

\* the request succeeded: the metadata is stored under the key taken at the
\* start of the call and _cache_timestamp is set to the present time
MetaFetchOk(c) ==
    /\ fn.name = "cache"
    /\ fn.at[c] = "fetching"
    /\ ~InCheck
    /\ LET entry == [key |-> fn.cache_key[c], slug |-> fn.slug[c], stored_at |-> fn.now]
       IN  fn' = [fn EXCEPT
                    !.at[c] = "idle",
                    !.cache = { e \in @ : e.key /= entry.key } \cup { entry },
                    !.cache_timestamp = fn.now,
                    !.ret[c] = [kind |-> "fresh", entry |-> entry, at |-> fn.now]]
    /\ CacheFrame

\* variant: a failed request leaves an empty entry under the key
MetaFetchFailsStoring(c) ==
    /\ fn.name = "cache"
    /\ fn.at[c] = "fetching"
    /\ ~InCheck
    /\ fn' = [fn EXCEPT
                !.at[c] = "idle",
                !.cache = { e \in @ : e.key /= fn.cache_key[c] }
                          \cup { [key |-> fn.cache_key[c], slug |-> "", stored_at |-> fn.now] },
                !.ret[c] = [kind |-> "failed"]]
    /\ CacheFrame

\* the request failed, or the event was not found, had no markets or not
\* two tokens: (None, error)
MetaFetchFails(c) ==
    /\ fn.name = "cache"
    /\ fn.at[c] = "fetching"
    /\ ~InCheck
    /\ fn' = [fn EXCEPT !.at[c] = "idle", !.ret[c] = [kind |-> "failed"]]
    /\ CacheFrame

NextCache ==
    \/ CacheTick
    \/ \E c \in MetaCalls, slug \in Slugs : MetaKey(c, slug)
    \/ \E c \in MetaCalls : MetaCheck(c)
    \/ \E c \in MetaCalls : MetaFetchOk(c)
    \/ \E c \in MetaCalls : MetaFetchFails(c)

SpecCache == InitCache /\ [][NextCache]_vars

(***************************************************************************)
(* fetch_all_data_async step by step: the sessions it opens, the requests  *)
(* of the two phases as they are issued and completed, its exit and the    *)
(* validation of what it returned.  The whole state is the record fn:      *)
(*   proxy      a VPN proxy connector is available                         *)
(*   fails      the sub-fetches whose request fails or times out           *)
(*   malformed  a Phase 1 payload whose processing raises                  *)
(*   sessions   the client sessions open                                   *)
(*   issued, completed                                                     *)
(*              the sub-fetches whose request was sent / has ended         *)
(*   at         start, phase1, phase2, returned, raised or evaluated       *)
(***************************************************************************)
Phase1Sources == {"metadata", "current", "kline", "ladder"}

Phase2Sources == {"up", "down"}

AcqLadder == << Entry(1, 40, 61, TRUE), Entry(2, 45, 56, TRUE), Entry(3, 50, 51, TRUE) >>

AcqMinute == 30

InitAcq ==
    /\ env = [kalshi_ok |-> TRUE, poly_ok |-> TRUE, paper |-> TRUE]
    /\ fn \in { [ name |-> "acq", proxy |-> x, fails |-> f, malformed |-> m,
                  sessions |-> {}, issued |-> {}, completed |-> {}, at |-> "start",
                  result |-> [errors |-> <<>>], is_synced |-> FALSE ] :
                  x \in BOOLEAN, f \in FetchFailures, m \in BOOLEAN }
    /\ InitCommon

\* the sessions are created and the three Phase 1 tasks handed to gather;
\* fetch_binance_prices sends its two requests together
AcqOpen ==
    /\ fn.name = "acq"
    /\ fn.at = "start"
    /\ fn' = [fn EXCEPT !.sessions = IF fn.proxy THEN {"direct", "vpn"} ELSE {"direct"},
                        !.issued = Phase1Sources,
                        !.at = "phase1"]
    /\ CacheFrame

\* a request ends, with a payload or with the error fetch_json hands back
AcqComplete(source) ==
    /\ fn.name = "acq"
    /\ fn.at \in {"phase1", "phase2"}
    /\ source \in fn.issued \ fn.completed
    /\ fn' = [fn EXCEPT !.completed = @ \cup {source}]
    /\ CacheFrame

\* variant: the metadata alone is awaited
Phase1DoneMetadataOnly == "metadata" \in fn.completed

\* await asyncio.gather(metadata_task, binance_task, kalshi_task)
Phase1Done == Phase1Sources \subseteq fn.completed

\* after gather: a raising task ends the call through finally; otherwise
\* "if metadata and not meta_err" sends the two best-ask requests
AcqJoin ==
    /\ fn.name = "acq"
    /\ fn.at = "phase1"
    /\ Phase1Done
    /\ IF fn.malformed
       THEN fn' = [fn EXCEPT !.at = "raised", !.sessions = {}]
       ELSE IF "metadata" \notin fn.fails
       THEN fn' = [fn EXCEPT !.at = "phase2", !.issued = @ \cup Phase2Sources]
       ELSE fn' = [fn EXCEPT !.at = "phase2"]
    /\ CacheFrame

\* the returned dict, and finally: the sessions closed
AcqReturn ==
    /\ fn.name = "acq"
    /\ fn.at = "phase2"
    /\ fn.issued \subseteq fn.completed
    /\ fn' = [fn EXCEPT !.at = "returned",
                        !.sessions = {},
                        !.result = fetch_all_data_async(fn.fails, AcqLadder)]
    /\ CacheFrame

\* is_synced, sync_issues = validate_market_sync(poly_data, kalshi_data)
AcqValidate ==
    /\ fn.name = "acq"
    /\ fn.at = "returned"
    /\ fn' = [fn EXCEPT !.at = "evaluated",
                        !.is_synced = validate_market_sync(fn.result.polymarket,
                                                           fn.result.kalshi,
                                                           AcqMinute).is_valid]
    /\ CacheFrame

NextAcq ==
    \/ AcqOpen
    \/ \E source \in FetchSources : AcqComplete(source)
    \/ AcqJoin
    \/ AcqReturn
    \/ AcqValidate

SpecAcq == InitAcq /\ [][NextAcq]_vars

(***************************************************************************)
(* Properties.                                                             *)
(***************************************************************************)
\* the answer of the cycle in progress is that of a blocked cycle
BlockedCycle == response.sent /\ (~response.is_synced \/ response.anomaly_detected)

C1_State ==
    BlockedCycle =>
        /\ response.transition_blocked
        /\ response.opportunities = <<>>
        /\ response.auto_trade_executed = None
        /\ pc["arb"] = "respond"
        /\ loc["arb"] = EmptyLoc

C1_Step ==
    (pc'["arb"] /= pc["arb"] /\ (BlockedCycle \/ BlockedCycle')) =>
        /\ trading_state'.trade_history = trading_state.trade_history
        /\ trading_state'.last_auto_trade = trading_state.last_auto_trade
        /\ calls' = calls
        /\ appended' = appended

\* C1: a blocked /arbitrage cycle (not synced or anomaly detected) answers
\* with no opportunity and goes straight to its answer: it never enters the
\* dispatch, and its steps place no order, append nothing to the history and
\* leave last_auto_trade alone, whether auto-trade is enabled or not.
C1_BlockedCycleEmitsNothing == []C1_State /\ [][C1_Step]_vars

\* a cycle at minute 59 blocked by the extreme Up price 0.015, auto-trade enabled
C1_Witness ==
    /\ BlockedCycle
    /\ response.current_minute = 59
    /\ "TRANSITION_BLOCK: Polymarket Up price is extreme" \in SeqToSet(response.errors)
    /\ response.has_trading
    /\ trading_state.auto_trade_enabled
    /\ pc["arb"] = "respond"

\* the re-validation of the manual request in progress found the market blocked
ManualFoundBlocked ==
    /\ pc["man"] /= "idle"
    /\ loc["man"].revalidated
    /\ (~loc["man"].is_synced \/ loc["man"].has_anomaly)

C2_State ==
    /\ ManualFoundBlocked =>
           /\ http = 409
           /\ pc["man"] = "respond"
           /\ loc["man"].timestamp = 0
           /\ ~loc["man"].kalshi_called /\ ~loc["man"].poly_called
    /\ (pc["man"] /= "idle" /\ loc["man"].forced) =>
           /\ ~loc["man"].revalidated
           /\ http /= 409
           /\ pc["man"] \in DispatchPcs \/ loc["man"].timestamp > 0

C2_Step ==
    (pc'["man"] /= pc["man"] /\ (ManualFoundBlocked \/ ManualFoundBlocked')) =>
        UNCHANGED << trading_state, kalshi_trader, polymarket_trader, calls, clock,
                     appended >>

\* C2: a manual execute without force whose re-validation finds the market
\* unsynced or anomalous is answered 409 without entering the dispatch: no
\* trader is created, no order placed, the trading state is unchanged.  A
\* forced manual execute is not re-validated and enters the dispatch.
C2_ManualBlockedIs409 == []C2_State /\ [][C2_Step]_vars

\* a manual execute rejected with 409 because the venue data were missing
C2_Witness ==
    /\ http = 409
    /\ pc["man"] = "respond"
    /\ ManualFoundBlocked
    /\ ~loc["man"].forced
    /\ kalshi_trader = "None"

OverrideEvents ==
    { e \in log["man"] : e.kind = "event"
                         /\ e.type \notin {"TRANSITION_BLOCK", "SYNC_ERROR", "ANOMALY_DETECTED"} }

\* C3: a forced manual execute that has entered its dispatch has logged an
\* event of a type other than TRANSITION_BLOCK, SYNC_ERROR, ANOMALY_DETECTED.
C3_OverrideIsLogged ==
    (pc["man"] \in InFlightPcs \cup {"respond"} /\ loc["man"].forced) =>
        OverrideEvents /= {}

\* a leg that errored: an error tag or an absent result
LegErrored(order) == order = "None" \/ HasError(order)

StatusAsSpecified(kalshi_order, polymarket_order) ==
    IF ~LegErrored(kalshi_order) /\ ~LegErrored(polymarket_order) THEN "executed"
    ELSE IF LegErrored(kalshi_order) /\ LegErrored(polymarket_order) THEN "failed"
    ELSE "partial"

\* C4: every record of the history, and the record of every dispatch past its
\* status assignment, has the status: executed iff no leg errored, partial iff
\* exactly one did, failed iff both did; never pending.
C4_StatusRule ==
    /\ \A i \in 1..Len(trading_state.trade_history) :
          LET r == trading_state.trade_history[i]
          IN  r.status = StatusAsSpecified(r.kalshi_order, r.polymarket_order)
    /\ \A t \in Threads :
          pc[t] \in {"d_trim", "d_assign", "d_return"} =>
              loc[t].status = StatusAsSpecified(loc[t].kalshi_order,
                                                loc[t].polymarket_order)

\* both legs of thread t's dispatch are done
LegsDone(t) == pc[t] \in {"d_append", "d_trim", "d_assign", "d_return"}

C5_State ==
    \A t \in Threads :
        LegsDone(t) =>
            /\ loc[t].poly_called
                   <=> (polymarket_trader = "ready" /\ loc[t].opportunity.poly_token_ids)
            /\ loc[t].kalshi_called
                   <=> (kalshi_trader = "ready" /\ loc[t].opportunity.kalshi_ticker)
            /\ loc[t].polymarket_order =
                   IF polymarket_trader /= "ready" THEN "error: Polymarket not ready"
                   ELSE IF ~loc[t].opportunity.poly_token_ids THEN "error: Token ID missing"
                   ELSE loc[t].polymarket_order
            /\ loc[t].kalshi_order =
                   IF kalshi_trader /= "ready" THEN "error: Kalshi not ready"
                   ELSE IF ~loc[t].opportunity.kalshi_ticker
                   THEN "error: Kalshi ticker missing"
                   ELSE loc[t].kalshi_order
            /\ (pc[t] /= "d_append") =>
                   \E i \in 1..Len(trading_state.trade_history) :
                       LET r == trading_state.trade_history[i]
                       IN  /\ r.timestamp = loc[t].timestamp
                           /\ r.kalshi_order = loc[t].kalshi_order
                           /\ r.polymarket_order = loc[t].polymarket_order

C5_Step ==
    /\ calls'.kalshi >= calls.kalshi
    /\ calls'.polymarket >= calls.polymarket
    /\ \A t \in Threads :
           pc[t] \in {"d_kalshi", "d_poly"} /\ pc'[t] /= pc[t] =>
               pc'[t] = IF pc[t] = "d_kalshi" THEN "d_poly" ELSE "d_append"

\* C5: once a dispatch is past its two legs, the Polymarket leg was attempted
\* iff the Polymarket trader is ready and the token is known, and the Kalshi
\* leg iff the Kalshi trader is ready and the ticker known, each whatever the
\* other leg did; both results are in the record that is appended; a leg step
\* always leads to the next leg or to the append; placed orders are never
\* taken back.
C5_LegsIndependent == []C5_State /\ [][C5_Step]_vars

\* the Polymarket order was placed after the Kalshi order came back absent
C5_Witness ==
    \E t \in Threads :
        /\ pc[t] = "d_append"
        /\ loc[t].kalshi_called
        /\ loc[t].kalshi_order = "None"
        /\ loc[t].poly_called
        /\ loc[t].polymarket_order = "ok"

\* no dispatch is between its first and its last step
NoneInFlight == \A t \in Threads : pc[t] \notin InFlightPcs

\* the timestamps of the records of the history, in order
HistoryStamps ==
    [i \in 1..Len(trading_state.trade_history) |-> trading_state.trade_history[i].timestamp]

\* C6: while dispatches run one at a time, whenever none is in progress after
\* n of them the history is the records of the most recent min(n, 100), in
\* dispatch order: one record per attempt, never more than HISTORY_CAP, the
\* oldest leaving first.
C6_SerialHistory ==
    (~overlapped /\ NoneInFlight) =>
        /\ Len(appended) = clock
        /\ Len(trading_state.trade_history) = Min2(clock, HISTORY_CAP)
        /\ HistoryStamps = LastN([i \in 1..clock |-> i], HISTORY_CAP)
        /\ \A i \in 1..Len(trading_state.trade_history) :
               trading_state.trade_history[i].status /= "pending"

\* 101 dispatches one at a time, auto and manual: the first record has left
C6_Witness ==
    /\ ~overlapped
    /\ NoneInFlight
    /\ clock = HISTORY_CAP + 1
    /\ Len(trading_state.trade_history) = HISTORY_CAP
    /\ trading_state.trade_history[1].timestamp = 2
    /\ trading_state.trade_history[HISTORY_CAP].by = "man"
    /\ trading_state.trade_history[HISTORY_CAP - 1].by = "arb"

\* C7: whenever no dispatch is in progress, interleaved or not, the history
\* is the most recent HISTORY_CAP appended records, each once, in the order
\* of their appends: what running the attempts one after the other in that
\* order leaves.
C7_NoRecordLost ==
    NoneInFlight => HistoryStamps = LastN(appended, HISTORY_CAP)

\* the steps with which the /arbitrage cycle enters and leaves a dispatch
C8_Step ==
    /\ (pc'["arb"] = "d_begin" /\ pc["arb"] /= "d_begin") =>
           /\ pc["arb"] = "idle"
           /\ trading_state.auto_trade_enabled
    /\ (pc["arb"] = "d_return" /\ pc'["arb"] /= "d_return") => pc'["arb"] = "respond"
    /\ (pc["arb"] = "respond" /\ pc'["arb"] /= "respond") => pc'["arb"] = "idle"

C8_State ==
    (pc["arb"] \in DispatchPcs \/ response.auto_trade_executed /= None) =>
        /\ response.sent
        /\ ~response.transition_blocked
        /\ response.is_synced /\ ~response.anomaly_detected
        /\ \E i \in 1..Len(response.opportunities) :
               /\ loc["arb"].opportunity = OppOf(response.opportunities[i])
               /\ response.opportunities[i].net_margin >= MIN_PROFIT_MARGIN
               /\ \A j \in 1..Len(response.opportunities) :
                      response.opportunities[j].net_margin
                          <= response.opportunities[i].net_margin

\* C8: the /arbitrage cycle enters a dispatch only from its evaluation, once,
\* with auto-trade enabled; the cycle is then not blocked and what it
\* dispatches is an opportunity of its list whose net margin is the highest of
\* the list and at least MIN_PROFIT_MARGIN.
C8_AutoTradeBestOnly == []C8_State /\ [][C8_Step]_vars

\* a dispatch of the best opportunity, which is not the first of the list
C8_Witness ==
    /\ pc["arb"] = "d_begin"
    /\ Len(response.opportunities) >= 2
    /\ loc["arb"].opportunity /= OppOf(response.opportunities[1])
    /\ \E i \in 1..Len(response.opportunities) :
           response.opportunities[i].net_margin < MIN_PROFIT_MARGIN

MaxNetMargin(checks) ==
    CHOOSE m \in { checks[i].net_margin : i \in 1..Len(checks) } :
        \A i \in 1..Len(checks) : checks[i].net_margin <= m

\* C9: in an answer with checks, a check is tagged is_best_strike iff its net
\* margin is the maximum over the checks, and best_strike.net_margin is that
\* maximum.
C9_BestTagIsMaxNetMargin ==
    (response.sent /\ Len(response.checks) > 0) =>
        /\ \A i \in 1..Len(response.checks) :
               response.checks[i].is_best_strike
                   <=> (response.checks[i].net_margin = MaxNetMargin(response.checks))
        /\ response.best_strike.present
        /\ response.best_strike.net_margin = MaxNetMargin(response.checks)

\* the lowest index (0-based) whose strike is closest to the reference
LowestClosest(ladder, reference) ==
    CHOOSE c \in 0..(Len(ladder) - 1) :
        /\ \A j \in 0..(Len(ladder) - 1) :
               Abs(ladder[c + 1].strike - reference) <= Abs(ladder[j + 1].strike - reference)
        /\ \A j \in 0..(c - 1) :
               Abs(ladder[c + 1].strike - reference) < Abs(ladder[j + 1].strike - reference)

IsSortedByStrike(ladder) ==
    \A i \in 1..(Len(ladder) - 1) : ladder[i].strike <= ladder[i + 1].strike

\* C10: for a ladder sorted by strike and a reference strike, the selected
\* window is the entries of indices max(0, c-4) up to min(len, c+5) exclusive,
\* c the lowest index closest to the reference: at most 9 contiguous entries
\* with entry c among them, at most 4 before it.
C10_WindowAroundClosest ==
    (fn.name = "SelectWindow" /\ fn.done) =>
        /\ IsSortedByStrike(fn.sorted)
        /\ Len(fn.sorted) = Len(fn.kalshi_markets)
        /\ IF Len(fn.sorted) = 0 THEN fn.selected_markets = <<>>
           ELSE LET c  == LowestClosest(fn.sorted, fn.poly_strike)
                    lo == Max2(0, c - 4)
                    hi == Min2(Len(fn.sorted), c + 5)
                IN  /\ fn.selected_markets = [i \in 1..(hi - lo) |-> fn.sorted[lo + i]]
                    /\ Len(fn.selected_markets) <= 9
                    /\ c - lo <= 4
                    /\ fn.selected_markets[c - lo + 1] = fn.sorted[c + 1]

\* a ladder of 11 given in descending order, the reference half-way between
\* two strikes, the window of 9 clipped on neither side
C10_Witness ==
    /\ fn.name = "SelectWindow" /\ fn.done
    /\ Len(fn.sorted) = 11
    /\ fn.kalshi_markets /= fn.sorted
    /\ Len(fn.selected_markets) = 9
    /\ fn.selected_markets[1] = fn.sorted[2]
    /\ Abs(fn.selected_markets[5].strike - fn.poly_strike)
           = Abs(fn.selected_markets[6].strike - fn.poly_strike)
    /\ fn.selected_markets[5].strike < fn.selected_markets[6].strike

\* an evaluation that went through to the checks
EvalUnblocked ==
    /\ fn.name = "Evaluate" /\ fn.done
    /\ ~fn.response.transition_blocked
    /\ fn.poly_data.price_to_beat /= None

\* the window the evaluation worked on
EvalWindow ==
    SelectWindow(SortByStrike(fn.kalshi_data.markets), fn.poly_data.price_to_beat)

\* the number of entries before entry k of the window with the reference strike
EqualBefore(window, reference, k) ==
    Cardinality({ j \in 1..(k - 1) : window[j].strike = reference })

\* check is the pairing (poly_leg, kalshi_leg) of entry km at the given costs
IsPairing(check, km, poly_leg, kalshi_leg, poly_cost, kalshi_cents) ==
    /\ check.kalshi_strike = km.strike
    /\ check.poly_leg = poly_leg
    /\ check.kalshi_leg = kalshi_leg
    /\ check.poly_cost = poly_cost
    /\ check.kalshi_cents = kalshi_cents
    /\ check.total_cost = poly_cost + 10 * kalshi_cents

\* C11: in an unblocked evaluation each window entry gives, in window order,
\* one check (Down, Yes) at (Down cost, yes ask) when the reference is above
\* its strike, one check (Up, No) at (Up cost, no ask) when it is below, and
\* these two checks when it is equal; no check pairs (Up, Yes) or (Down, No);
\* there are as many checks as window entries plus entries at the reference.
C11_ChecksPerEntry ==
    EvalUnblocked =>
        LET window == EvalWindow
            ref    == fn.poly_data.price_to_beat
            up     == fn.poly_data.prices.Up
            down   == fn.poly_data.prices.Down
            checks == fn.response.checks
        IN  /\ Len(checks) = Len(window) + EqualBefore(window, ref, Len(window) + 1)
            /\ \A i \in 1..Len(checks) :
                   << checks[i].poly_leg, checks[i].kalshi_leg >>
                       \in { << "Down", "Yes" >>, << "Up", "No" >> }
            /\ \A k \in 1..Len(window) :
                   LET at == k + EqualBefore(window, ref, k)
                       km == window[k]
                   IN  IF ref > km.strike
                       THEN /\ IsPairing(checks[at], km, "Down", "Yes", down, km.yes_ask)
                            /\ checks[at].type = "Poly > Kalshi"
                       ELSE IF ref < km.strike
                       THEN /\ IsPairing(checks[at], km, "Up", "No", up, km.no_ask)
                            /\ checks[at].type = "Poly < Kalshi"
                       ELSE /\ IsPairing(checks[at], km, "Down", "Yes", down, km.yes_ask)
                            /\ IsPairing(checks[at + 1], km, "Up", "No", up, km.no_ask)
                            /\ checks[at].type = "Equal"
                            /\ checks[at + 1].type = "Equal"

\* a window with an entry below, one at and one above the reference: 4 checks
C11_Witness ==
    /\ EvalUnblocked
    /\ Len(EvalWindow) = 3
    /\ Len(fn.response.checks) = 4
    /\ fn.response.checks[1].type = "Poly > Kalshi"
    /\ fn.response.checks[2].type = "Equal"
    /\ fn.response.checks[4].type = "Poly < Kalshi"

\* C12: every check of an evaluation has gross_margin = 1.0 - total cost
\* (in 1e-4 dollar: 10 x (1000 - total cost in mills)), for the three
\* relations and also when the total cost is 1.00 or more.
C12_GrossMarginOfEveryCheck ==
    (fn.name = "Evaluate" /\ fn.done) =>
        \A i \in 1..Len(fn.response.checks) :
            fn.response.checks[i].gross_margin
                = 10 * (1000 - fn.response.checks[i].total_cost)

FeesDone == fn.name = "fees" /\ fn.done

\* ceil-to-cent(0.07 x contracts x price x (1 - price)) in exact arithmetic,
\* capped at contracts x 0.0175, in 1e-7 dollar
ExactKalshiFee(contracts, kalshi_cents) ==
    Min2(CeilDiv(7 * contracts * kalshi_cents * (100 - kalshi_cents), 10000) * 100000,
         contracts * 175000)

\* C13: calculate_kalshi_fee(contracts, price) is the round-up to the next
\* cent of 0.07 x contracts x price x (1 - price), then capped at
\* contracts x 0.0175; 1.75 dollars for 100 contracts at 0.50.
C13_KalshiFeeIsCeilThenCap ==
    FeesDone =>
        /\ fn.kalshi_fee = ExactKalshiFee(fn.contracts, fn.kalshi_cents)
        /\ (fn.contracts = 100 /\ fn.kalshi_cents = 50) => fn.kalshi_fee = 17500000

\* C14: for fixed contracts the discrete fee does not decrease from one cent
\* to the next up to 0.50 and does not increase from 0.50 on, is highest at
\* 0.50, is 0 at 0 and at 1.00 and never exceeds contracts x 0.0175; so is
\* the fee for a single contract before rounding.
C14_KalshiFeeShape ==
    FeesDone =>
        LET c == fn.contracts
            k == fn.kalshi_cents
        IN  /\ k < 50 => /\ fn.kalshi_fee <= calculate_kalshi_fee(c, k + 1)
                         /\ fn.fee_per_contract <= calculate_kalshi_fee_per_contract(k + 1)
            /\ (50 <= k /\ k < 100) =>
                   /\ fn.kalshi_fee >= calculate_kalshi_fee(c, k + 1)
                   /\ fn.fee_per_contract >= calculate_kalshi_fee_per_contract(k + 1)
            /\ fn.kalshi_fee <= calculate_kalshi_fee(c, 50)
            /\ fn.fee_per_contract <= calculate_kalshi_fee_per_contract(50)
            /\ k \in {0, 100} => fn.kalshi_fee = 0 /\ fn.fee_per_contract = 0
            /\ fn.kalshi_fee >= 0
            /\ fn.kalshi_fee <= c * KALSHI_MAX_FEE_PER_CONTRACT
            /\ fn.fee_per_contract <= KALSHI_MAX_FEE_PER_CONTRACT

\* the fee of 25 contracts at 0.50: the cap, reached from 0 at price 0
C14_Witness ==
    /\ FeesDone
    /\ fn.contracts = 25
    /\ fn.kalshi_cents = 50
    /\ fn.kalshi_fee = 25 * KALSHI_MAX_FEE_PER_CONTRACT
    /\ fn.kalshi_fee > calculate_kalshi_fee(25, 40)
    /\ calculate_kalshi_fee(25, 40) > calculate_kalshi_fee(25, 1)
    /\ calculate_kalshi_fee(25, 60) > calculate_kalshi_fee(25, 99)

\* C15: total fees are contracts x continuous cost x 0.0001 plus the flat
\* 0.02 plus the discrete fee; the net margin is (gross margin x contracts -
\* total fees) / contracts, to the 4 decimals it is reported with; profitable
\* iff gross margin x contracts > total fees.  All in 1e-7 dollar.
C15_FeeBreakdown ==
    FeesDone =>
        LET c            == fn.contracts
            b            == fn.breakdown
            gross_profit == (1000 - fn.poly_cost - 10 * fn.kalshi_cents) * 10000 * c
        IN  /\ fn.polymarket_fee = c * fn.poly_cost
            /\ b.polymarket_gas_fee = 200000
            /\ b.total_fees = c * fn.poly_cost + 200000 + fn.kalshi_fee
            /\ b.kalshi_fee = fn.kalshi_fee
            /\ 2 * Abs(b.net_margin * 1000 * c - (gross_profit - b.total_fees)) <= 1000 * c
            /\ b.is_profitable <=> (gross_profit > b.total_fees)

SyncDone == fn.name = "sync" /\ fn.done

\* an outcome cost of the fetched state, 0 when the prices do not hold it
CostOrZero(key) ==
    IF fn.poly_data.prices[key] = None THEN 0 ELSE fn.poly_data.prices[key]

\* a ladder entry with a yes or no ask <= 0.02 or >= 0.98
AskAtEdge(km) ==
    km.yes_ask <= 2 \/ km.yes_ask >= 98 \/ km.no_ask <= 2 \/ km.no_ask >= 98

\* some hard check of the synchronisation fails on the fetched state
HardCheckFails ==
    \/ ~fn.poly_data.present
    \/ ~fn.kalshi_data.present
    \/ fn.poly_data.price_to_beat = None
    \/ fn.poly_data.target_time_utc = None
    \/ fn.poly_data.target_time_utc > 5 * 60
    \/ CostOrZero("Up") = 0 /\ CostOrZero("Down") = 0
    \/ fn.kalshi_data.markets = <<>>
    \/ /\ fn.minute <= 2 \/ fn.minute >= 58
       /\ \/ CostOrZero("Up") <= 20 \/ CostOrZero("Up") >= 980
          \/ CostOrZero("Down") <= 20 \/ CostOrZero("Down") >= 980
          \/ \E i \in 1..Len(fn.kalshi_data.markets) : AskAtEdge(fn.kalshi_data.markets[i])

SumWarned == "SYNC_WARNING: Polymarket prices sum" \in SeqToSet(fn.sync.issues)

CostOrHalf(key) ==
    IF fn.poly_data.prices[key] = None THEN 500 ELSE fn.poly_data.prices[key]

EdgeEntries ==
    { i \in 1..Len(fn.kalshi_data.markets) : AskAtEdge(fn.kalshi_data.markets[i]) }

FetchDone == fn.name = "fetch" /\ fn.done

StrikeErrors ==
    { "SYNC_ERROR: Binance price_to_beat is missing", "Polymarket Strike is None" }

\* C18: a cycle whose reference strike (hourly open) is null runs neither
\* the window selection nor the classification: its response has no checks
\* and no opportunities, nothing is dispatched, and its errors list holds an
\* entry that names the missing reference strike.
C18_NullStrikeShortCircuits ==
    (FetchDone /\ fn.fetched.poly_data.present
               /\ fn.fetched.poly_data.price_to_beat = None) =>
        /\ fn.response.checks = <<>>
        /\ fn.response.opportunities = <<>>
        /\ AutoTradeCandidate(fn.response) = <<>>
        /\ \E e \in StrikeErrors : e \in SeqToSet(fn.response.errors)

\* the fetch errors that tell of a failure of the source
FetchErrorsOf(source) ==
    { RequestError(source) } \cup
    ( CASE source = "metadata" -> { FetcherError("metadata"), SyncPolymarketError }
        [] source = "ladder"   -> { FetcherError("ladder"), SyncKalshiError }
        [] OTHER               -> {} )

FetchErrorsIn(errors) ==
    { e \in SeqToSet(errors) : \E s \in FetchSources : e \in FetchErrorsOf(s) }

\* C19: every sub-fetch that fails in a cycle (metadata, current price,
\* hourly open, ladder, best ask of an outcome) has its fetch error in the
\* errors list of the cycle's response, also when several fail together,
\* and the list holds no fetch error when every sub-fetch succeeded.
C19_EveryFetchErrorSurfaced ==
    FetchDone =>
        /\ \A s \in fn.fails : FetchErrorsOf(s) \cap SeqToSet(fn.response.errors) /= {}
        /\ fn.fails = {} => FetchErrorsIn(fn.response.errors) = {}

\* the manual request's dispatch has returned and no leg was placed
ManualDispatchFailed ==
    /\ pc["man"] = "respond"
    /\ loc["man"].timestamp > 0
    /\ LegErrored(loc["man"].kalshi_order)
    /\ LegErrored(loc["man"].polymarket_order)

\* C20: a /trading/execute whose dispatch failed is answered 500 (the
\* dispatch handing back no trade result), never 200 with success = true;
\* 409 is answered only when the re-validation found a safety block.
C20_FailedDispatchIs500 ==
    /\ ManualDispatchFailed => http = 500
    /\ http = 409 => ManualFoundBlocked

\* the outcome whose best-ask request was the only one of the two to fail
MissingOutcome ==
    IF "up" \in fn.fails /\ "down" \notin fn.fails THEN "Up"
    ELSE IF "down" \in fn.fails /\ "up" \notin fn.fails THEN "Down"
    ELSE "none"

\* C21: when the best-ask request of exactly one outcome fails (cost taken is
\* 0.0, the other outcome has its real cost), the cycle has no opportunity
\* and no auto-trade candidate whose continuous leg is that outcome, at any
\* wall-clock minute.
C21_NoTradeOnMissingPrice ==
    (FetchDone /\ MissingOutcome /= "none") =>
        /\ \A i \in 1..Len(fn.response.opportunities) :
              fn.response.opportunities[i].poly_leg /= MissingOutcome
        /\ \A i \in 1..Len(AutoTradeCandidate(fn.response)) :
              AutoTradeCandidate(fn.response)[i].poly_leg /= MissingOutcome

EvalDone == fn.name = "Evaluate" /\ fn.done

\* C22: every opportunity of a response is one of its checks, costs less than
\* 1.00 in total, carries computed fees and is_profitable_after_fees, and has
\* hour_boundary_blocked false.
C22_OpportunityIsQualifiedCheck ==
    EvalDone =>
        \A i \in 1..Len(fn.response.opportunities) :
            LET o == fn.response.opportunities[i]
            IN  /\ \E j \in 1..Len(fn.response.checks) : fn.response.checks[j] = o
                /\ o.total_cost < 1000
                /\ o.gross_margin > 0
                /\ o.fees_total /= None
                /\ o.is_profitable_after_fees
                /\ o.hour_boundary_blocked = "false"

\* near the boundary: one check is an opportunity of the response while
\* another, profitable as well, is held back by the boundary test
C22_Witness ==
    /\ EvalDone
    /\ fn.minute = 59
    /\ fn.response.opportunities /= <<>>
    /\ \E j \in 1..Len(fn.response.checks) :
          /\ fn.response.checks[j].hour_boundary_blocked = "true"
          /\ fn.response.checks[j].is_profitable_after_fees

\* a cost of the check in the suspicious range: its discrete leg, or either
\* continuous outcome
InSuspiciousRange(cost) == cost <= 30 \/ cost >= 970

SuspiciousCheck(check) ==
    \/ InSuspiciousRange(check.kalshi_cost)
    \/ InSuspiciousRange(fn.poly_data.prices.Up)
    \/ InSuspiciousRange(fn.poly_data.prices.Down)

\* C23: in a cycle that is not transition-blocked, at minute <= 2 or >= 58,
\* every check with a discrete leg cost or a continuous outcome cost <= 0.03
\* or >= 0.97 is flagged hour_boundary_blocked, is not an opportunity and is
\* not what auto-trade dispatches.
C23_SuspiciousCheckSuppressed ==
    (EvalDone /\ ~fn.response.transition_blocked
              /\ (fn.minute <= 2 \/ fn.minute >= 58)) =>
        \A j \in 1..Len(fn.response.checks) :
            LET c == fn.response.checks[j]
            IN  SuspiciousCheck(c) =>
                    /\ c.hour_boundary_blocked = "true"
                    /\ c \notin SeqToSet(fn.response.opportunities)
                    /\ c \notin SeqToSet(AutoTradeCandidate(fn.response))

\* the step of a dispatch that stores last_auto_trade / a history record
StoresLastAutoTrade == pc["arb"] = "d_return" /\ pc'["arb"] = "respond"

StoresHistory ==
    \E t \in Threads : pc[t] \in {"d_append", "d_trim", "d_assign"} /\ pc'[t] /= pc[t]

\* the parts of the frame rule that concern the flag, the last auto-trade,
\* the history and the cycle without dispatch
C24_FrameCommon ==
    /\ trading_state'.auto_trade_enabled /= trading_state.auto_trade_enabled => pc' = pc
    /\ trading_state'.last_auto_trade /= trading_state.last_auto_trade => StoresLastAutoTrade
    /\ trading_state'.trade_history /= trading_state.trade_history => StoresHistory
    /\ (pc["arb"] = "idle" /\ pc'["arb"] = "respond") => trading_state' = trading_state
    /\ (pc["arb"] = "respond" /\ pc'["arb"] = "idle") => trading_state' = trading_state

\* A step that moves no handler and leaves the flag as it is is a
\* GET /trading/status or a request for the value the flag already has (which,
\* the traders existing once the flag was set, writes nothing else).
C24_StatusStep ==
    (pc' = pc /\ trading_state'.auto_trade_enabled = trading_state.auto_trade_enabled) =>
        trading_state' = trading_state

\* C24: the trading state is changed only by a dispatch and by an
\* enable/disable request: the flag only through POST /trading/auto-trade,
\* last_auto_trade and trade_history only through a dispatch; GET
\* /trading/status and an /arbitrage cycle that dispatches nothing change no
\* field.
C24_FrameAsClaimed == [][C24_FrameCommon /\ C24_StatusStep]_vars

\* a readiness flag changes only when its trader is created
C24_ReadinessStep ==
    /\ trading_state'.kalshi_ready /= trading_state.kalshi_ready =>
           (kalshi_trader = "None" /\ kalshi_trader' /= "None")
    /\ trading_state'.polymarket_ready /= trading_state.polymarket_ready =>
           (polymarket_trader = "None" /\ polymarket_trader' /= "None")

\* C24 (amended): the flag changes only through POST /trading/auto-trade,
\* last_auto_trade and trade_history only through a dispatch, kalshi_ready and
\* polymarket_ready only when the trader is first created (which GET
\* /trading/status does as well); an /arbitrage cycle that dispatches nothing
\* changes no field.
C24_Frame == [][C24_FrameCommon /\ C24_ReadinessStep]_vars

\* both traders created and found ready, an auto-trade dispatched and stored,
\* and the flag cleared again by a disable request
C24_Witness ==
    /\ trading_state.kalshi_ready /\ trading_state.polymarket_ready
    /\ trading_state.last_auto_trade /= None
    /\ Len(trading_state.trade_history) = 1
    /\ ~trading_state.auto_trade_enabled
    /\ \A t \in Threads : pc[t] = "idle"

\* C25: a /trading/execute that enters the dispatch (re-validation passed, or
\* forced) with both traders ready and place-order succeeding (paper mode:
\* every order placed is accepted) places one order on each venue and its
\* trade record has status 'executed'.
C25_ManualExecutePlacesBothLegs ==
    ( /\ pc["man"] = "respond"
      /\ loc["man"].timestamp > 0
      /\ kalshi_trader = "ready" /\ polymarket_trader = "ready"
      /\ env.paper ) =>
        /\ loc["man"].kalshi_called /\ loc["man"].poly_called
        /\ loc["man"].kalshi_order = "ok" /\ loc["man"].polymarket_order = "ok"
        /\ loc["man"].status = "executed"

\* the /arbitrage cycle calls execute_arbitrage_trade: its dispatch begins
AutoDispatchBegins == pc["arb"] = "d_begin" /\ pc'["arb"] = "d_kalshi"

\* C26: once a disable request has returned, no auto-trade dispatch begins
\* until auto-trade is enabled again, also for a cycle that was in flight
\* when the request ran: a dispatch of the cycle begins only while the flag
\* is set.
C26_NoDispatchAfterDisable ==
    [][AutoDispatchBegins => trading_state.auto_trade_enabled]_vars

CacheRun == fn.name = "cache"

\* C27: the metadata a call of fetch_polymarket_metadata returns for a slug
\* was fetched for that slug: an entry stored for one slug is never returned
\* to a call for another slug in the same wall-clock hour.
C27_CachedMetadataIsForSlug ==
    CacheRun =>
        \A c \in MetaCalls :
            fn.ret[c].kind \in {"cached", "fresh"} => fn.ret[c].entry.slug = fn.slug[c]

CacheState ==
    CacheRun =>
        \A c \in MetaCalls :
            fn.ret[c].kind = "cached" => fn.ret[c].entry.stored_at = fn.ret[c].at

\* a failed fetch writes nothing; a call that finds no entry stored in the
\* present hour sends a request
CacheStep ==
    CacheRun =>
        \A c \in MetaCalls :
            /\ (fn.at[c] = "fetching" /\ fn'.ret[c].kind = "failed") =>
                   (fn'.cache = fn.cache /\ fn'.cache_timestamp = fn.cache_timestamp)
            /\ (fn.at[c] = "check" /\ fn'.at[c] /= "check"
                    /\ \A e \in fn.cache : e.stored_at /= fn.now) =>
                   fn'.at[c] = "fetching"

\* C28: fetch_polymarket_metadata returns a cached entry only in the (date,
\* hour) in which the entry was stored, also when calls overlap and a fetch
\* straddles the hour boundary; the first call after a boundary fetches
\* afresh; a failed fetch never writes to the cache.
C28_CacheHourBound == []CacheState /\ [][CacheStep]_vars

\* after the boundary: an entry stored late by a fetch that began in the
\* hour before, and a call served from the entry of the new hour
C28_Witness ==
    /\ CacheRun
    /\ \E e \in fn.cache : get_cache_key(e.stored_at) /= e.key
    /\ \E c \in MetaCalls :
          /\ fn.ret[c].kind = "cached"
          /\ fn.ret[c].at > StartHour
          /\ get_cache_key(fn.ret[c].at)[1] /= get_cache_key(StartHour)[1]

AcqRun == fn.name = "acq"

AcqReturned == AcqRun /\ fn.at \in {"returned", "evaluated"}

\* the result of a Phase 1 sub-fetch is in the returned quote and ladder
ResultPresent(source) ==
    CASE source = "metadata" -> fn.result.polymarket.token_ids
      [] source = "current"  -> fn.result.current_price /= None
      [] source = "kline"    -> fn.result.polymarket.price_to_beat /= None
      [] source = "ladder"   -> fn.result.kalshi.markets = AcqLadder

\* C29: when a single Phase 1 sub-fetch fails or times out, the others are
\* not aborted: every request sent has ended when the call returns, the
\* results of the others are in the returned quote and ladder, the failure
\* is in errors, and no session is left open on any exit.
C29_Phase1FailuresIndependent ==
    /\ (AcqRun /\ fn.at \in {"returned", "raised", "evaluated"}) => fn.sessions = {}
    /\ AcqReturned => fn.issued \subseteq fn.completed
    /\ \A s \in Phase1Sources :
          (AcqReturned /\ fn.fails \cap Phase1Sources = {s}) =>
              /\ \A o \in Phase1Sources \ {s} : ResultPresent(o)
              /\ ~ResultPresent(s)
              /\ FetchErrorsOf(s) \cap SeqToSet(fn.result.errors) /= {}

\* the current-price request failed alone, through the proxy session: the
\* call returned with the hourly open, the ladder and the outcome costs
C29_Witness ==
    /\ AcqReturned
    /\ fn.proxy
    /\ fn.fails = {"current"}
    /\ fn.result.polymarket.price_to_beat /= None
    /\ fn.result.polymarket.prices.Up = 480
    /\ Len(fn.result.errors) = 1

=============================================================================
